---- MODULE Spec2Model ----
(***************************************************************************)
(* The application lifecycle of the Kantama backend: applications,         *)
(* assignments, info requests, offers and contracts, as mutated by the     *)
(* request handlers under backend/app/routes.                              *)
(*                                                                         *)
(* Every handler is an operator that maps the database (a record of the    *)
(* tables) and the request's inputs to a response: the HTTP status code,   *)
(* the database after the request, and the notifications the request       *)
(* created. An action applies one handler to the current database.         *)
(***************************************************************************)
EXTENDS Integers, Sequences, FiniteSets, TLC

\* ------------------------------------------------------------------ bounds
MaxApps == 1
MaxInfoRequests == 1
MaxOffers == 2
MaxContracts == 2
MaxChildRows == 3
MaxResponses == 1
MaxConcurrent == 2
MaxNotifications == 5
MaxRacedOffers == 1

\* --------------------------------------------------------------- constants
NULL == "NULL"

HTTP_200_OK == 200
HTTP_400_BAD_REQUEST == 400
HTTP_403_FORBIDDEN == 403
HTTP_404_NOT_FOUND == 404

UserRole == {"CUSTOMER", "ADMIN", "FINANCIER"}

ApplicationStatus ==
    {"DRAFT", "SUBMITTED", "SUBMITTED_TO_FINANCIER", "INFO_REQUESTED", "OFFER_SENT",
     "OFFER_ACCEPTED", "OFFER_REJECTED", "CONTRACT_SENT", "SIGNED", "CLOSED", "CANCELLED"}

AssignmentStatus == {"PENDING", "ACCEPTED", "REJECTED", "IN_PROGRESS", "COMPLETED"}

InfoRequestStatus == {"PENDING", "RESPONDED", "CLOSED"}

OfferStatus == {"DRAFT", "PENDING_ADMIN", "SENT", "ACCEPTED", "REJECTED", "EXPIRED"}

ContractStatus == {"DRAFT", "PENDING_ADMIN", "SENT", "SIGNED", "REJECTED", "EXPIRED"}

\* The accounts of the demo data, a user of a second financier, and a user of
\* the first financier that an admin has deactivated (users.py 129-147).
users ==
    [adm |-> [role |-> "ADMIN",     financier_id |-> NULL, is_active |-> TRUE],
     c1  |-> [role |-> "CUSTOMER",  financier_id |-> NULL, is_active |-> TRUE],
     c2  |-> [role |-> "CUSTOMER",  financier_id |-> NULL, is_active |-> TRUE],
     f1u |-> [role |-> "FINANCIER", financier_id |-> "F1", is_active |-> TRUE],
     f2u |-> [role |-> "FINANCIER", financier_id |-> "F2", is_active |-> TRUE],
     f1x |-> [role |-> "FINANCIER", financier_id |-> "F1", is_active |-> FALSE]]

\* The accounts requests are drawn from: the active ones.
UserIds == {u \in DOMAIN users : users[u].is_active}

FinancierIds == {"F1", "F2"}

\* The company name every application form carries (a required field).
CompanyName == "ACME"

\* The monthly payments an offer form may carry (a required field), and the
\* monthly rents a contract form may carry (NULL: the field is left out).
\* Amounts are written as the form writes them; they are never added up.
OfferPaymentInputs == {"300.0"}
ContractRentInputs == {NULL}

VARIABLES
    financiers,     \* financier id -> [is_active]
    applications,   \* sequence of application rows; the id is the index
    assignments,    \* set of assignment rows [id, application_id, financier_id, status]
    info_requests,  \* sequence of info request rows
    offers,         \* sequence of offer rows
    contracts,      \* sequence of contract rows
    requests,       \* in-flight assign requests (used by SpecRace only)
    call,           \* a request followed statement by statement (SpecFanout only)
    notifications   \* the rows of the notifications table (SpecNotify only)

vars == <<financiers, applications, assignments, info_requests, offers, contracts,
          requests, call, notifications>>

\* The database as one value, as a handler sees it.
DB ==
    [financiers |-> financiers, applications |-> applications,
     assignments |-> assignments, info_requests |-> info_requests,
     offers |-> offers, contracts |-> contracts]

\* ---------------------------------------------------------------- helpers
Ok(d, notes) == [code |-> HTTP_200_OK, db |-> d, notified |-> notes]

Err(c, d) == [code |-> c, db |-> d, notified |-> <<>>]

Note(u, t) == [user_id |-> u, type |-> t]

require_role(u, role) == users[u].role = role

RECURSIVE SeqOfSet(_)
SeqOfSet(S) ==
    IF S = {} THEN <<>>
    ELSE LET x == CHOOSE y \in S : TRUE IN <<x>> \o SeqOfSet(S \ {x})

\* The query with the filter on is_active left out (assignments.py 85).
financier_user_ids_including_inactive(f) ==
    {u \in DOMAIN users : users[u].financier_id = f}

\* select(User).where(User.financier_id == f, User.is_active == True)
financier_user_ids(f) ==
    {u \in DOMAIN users : users[u].financier_id = f /\ users[u].is_active}

NotifyAll(us, t) == [i \in 1..Len(SeqOfSet(us)) |-> Note(SeqOfSet(us)[i], t)]

\* The assignment row of an (application, financier) pair, if any.
AssignmentsOf(d, a, f) ==
    {r \in d.assignments : r.application_id = a /\ r.financier_id = f}

ChildRows(d) == Len(d.info_requests) + Len(d.offers) + Len(d.contracts)

\* The primary key of a new assignment row. Keys are opaque unique handles: a
\* row is keyed by its pair and the least serial no row of the pair carries.
NextAssignmentId(d, a, f) ==
    LET taken == {r.id[3] : r \in AssignmentsOf(d, a, f)}
        n == CHOOSE i \in 1..(Cardinality(taken) + 1) :
                 i \notin taken /\ \A j \in 1..(i - 1) : j \in taken
    IN  <<a, f, n>>

\* ------------------------------------------------------------ applications
\* POST /applications/leasing and /applications/sale-leaseback: any
\* authenticated user becomes the owner of a new SUBMITTED application.
create_application(d, u) ==
    LET application == [customer_id |-> u, status |-> "SUBMITTED",
                        company_name |-> CompanyName]
    IN  Ok([d EXCEPT !.applications = Append(@, application)],
           <<Note(u, "APPLICATION_SUBMITTED")>>)

\* The statuses in which a customer may still edit the application.
CustomerEditable == {"DRAFT", "SUBMITTED", "INFO_REQUESTED"}

\* update_application without the customer's status gate (applications.py
\* 431-436 left out).
update_application_in_any_status(d, u, a, patch) ==
    IF a \notin DOMAIN d.applications THEN Err(HTTP_404_NOT_FOUND, d)
    ELSE LET application == d.applications[a] IN
    IF users[u].role = "CUSTOMER" /\ application.customer_id # u
        THEN Err(HTTP_403_FORBIDDEN, d)
    ELSE LET updated ==
                 [field \in DOMAIN application |->
                     IF field \in DOMAIN patch
                        /\ ~(field = "status" /\ users[u].role = "CUSTOMER")
                     THEN patch[field] ELSE application[field]]
         IN  Ok([d EXCEPT !.applications[a] = updated], <<>>)

\* update_application without the skip of a customer's status field
\* (applications.py 439-440 left out).
update_application_applying_status(d, u, a, patch) ==
    IF a \notin DOMAIN d.applications THEN Err(HTTP_404_NOT_FOUND, d)
    ELSE LET application == d.applications[a] IN
    IF users[u].role = "CUSTOMER" /\ application.customer_id # u
        THEN Err(HTTP_403_FORBIDDEN, d)
    ELSE IF users[u].role = "CUSTOMER" /\ application.status \notin CustomerEditable
        THEN Err(HTTP_400_BAD_REQUEST, d)
    ELSE LET updated ==
                 [field \in DOMAIN application |->
                     IF field \in DOMAIN patch
                     THEN patch[field] ELSE application[field]]
         IN  Ok([d EXCEPT !.applications[a] = updated], <<>>)

\* PUT /applications/{id}. patch maps the fields the request sets to values.
update_application(d, u, a, patch) ==
    IF a \notin DOMAIN d.applications THEN Err(HTTP_404_NOT_FOUND, d)
    ELSE LET application == d.applications[a] IN
    IF users[u].role = "CUSTOMER" /\ application.customer_id # u
        THEN Err(HTTP_403_FORBIDDEN, d)
    ELSE IF users[u].role = "CUSTOMER" /\ application.status \notin CustomerEditable
        THEN Err(HTTP_400_BAD_REQUEST, d)
    ELSE LET updated ==
                 [field \in DOMAIN application |->
                     IF field \in DOMAIN patch
                        /\ ~(field = "status" /\ users[u].role = "CUSTOMER")
                     THEN patch[field] ELSE application[field]]
         IN  Ok([d EXCEPT !.applications[a] = updated], <<>>)

\* ------------------------------------------------------------- financiers
\* DELETE /financiers/{id}: soft delete.
delete_financier(d, u, f) ==
    IF ~require_role(u, "ADMIN") THEN Err(HTTP_403_FORBIDDEN, d)
    ELSE IF f \notin DOMAIN d.financiers THEN Err(HTTP_404_NOT_FOUND, d)
    ELSE Ok([d EXCEPT !.financiers[f].is_active = FALSE], <<>>)

\* PUT /financiers/{id} with is_active set.
update_financier(d, u, f, is_active) ==
    IF ~require_role(u, "ADMIN") THEN Err(HTTP_403_FORBIDDEN, d)
    ELSE IF f \notin DOMAIN d.financiers THEN Err(HTTP_404_NOT_FOUND, d)
    ELSE Ok([d EXCEPT !.financiers[f].is_active = is_active], <<>>)

\* ------------------------------------------------------------ assignments
\* assign_check without its duplicate check (assignments.py 51-62 left out).
assign_check_without_duplicate_check(d, u, a, f) ==
    IF ~require_role(u, "ADMIN") THEN HTTP_403_FORBIDDEN
    ELSE IF a \notin DOMAIN d.applications THEN HTTP_404_NOT_FOUND
    ELSE IF f \notin DOMAIN d.financiers \/ ~d.financiers[f].is_active
        THEN HTTP_404_NOT_FOUND
    ELSE HTTP_200_OK

\* The reads of assign_to_financier: the application, the financier and the
\* duplicate check. 200 when the request may go on to insert.
assign_check(d, u, a, f) ==
    IF ~require_role(u, "ADMIN") THEN HTTP_403_FORBIDDEN
    ELSE IF a \notin DOMAIN d.applications THEN HTTP_404_NOT_FOUND
    ELSE IF f \notin DOMAIN d.financiers \/ ~d.financiers[f].is_active
        THEN HTTP_404_NOT_FOUND
    ELSE IF AssignmentsOf(d, a, f) # {} THEN HTTP_400_BAD_REQUEST
    ELSE HTTP_200_OK

\* The writes of assign_to_financier, committed together, and its fan-out.
assign_commit(d, u, a, f) ==
    LET assignment == [id |-> NextAssignmentId(d, a, f), application_id |-> a,
                       financier_id |-> f, status |-> "PENDING"]
    IN  Ok([d EXCEPT !.assignments = @ \cup {assignment},
                     !.applications[a].status = "SUBMITTED_TO_FINANCIER"],
           <<Note(d.applications[a].customer_id, "SUBMITTED_TO_FINANCIER")>>
               \o NotifyAll(financier_user_ids(f), "NEW_APPLICATION"))

\* POST /assignments/
assign_to_financier(d, u, a, f) ==
    IF assign_check(d, u, a, f) # HTTP_200_OK THEN Err(assign_check(d, u, a, f), d)
    ELSE assign_commit(d, u, a, f)

\* remove_assignment that also puts the application back to SUBMITTED, which
\* the route (assignments.py 147-148) does not do.
remove_assignment_reverting_status(d, u, id) ==
    IF ~require_role(u, "ADMIN") THEN Err(HTTP_403_FORBIDDEN, d)
    ELSE IF \A r \in d.assignments : r.id # id THEN Err(HTTP_404_NOT_FOUND, d)
    ELSE Ok([d EXCEPT !.assignments = {r \in @ : r.id # id},
                      !.applications[id[1]].status = "SUBMITTED"], <<>>)

\* DELETE /assignments/{id}
remove_assignment(d, u, id) ==
    IF ~require_role(u, "ADMIN") THEN Err(HTTP_403_FORBIDDEN, d)
    ELSE IF \A r \in d.assignments : r.id # id THEN Err(HTTP_404_NOT_FOUND, d)
    ELSE Ok([d EXCEPT !.assignments = {r \in @ : r.id # id}], <<>>)

\* ---------------------------------------------------------- info requests
\* POST /info-requests/
create_info_request(d, u, a) ==
    IF ~require_role(u, "FINANCIER") THEN Err(HTTP_403_FORBIDDEN, d)
    ELSE IF a \notin DOMAIN d.applications THEN Err(HTTP_404_NOT_FOUND, d)
    ELSE IF AssignmentsOf(d, a, users[u].financier_id) = {}
        THEN Err(HTTP_403_FORBIDDEN, d)
    ELSE LET info_request == [application_id |-> a,
                              financier_id |-> users[u].financier_id,
                              status |-> "PENDING", responses |-> <<>>]
         IN  Ok([d EXCEPT !.info_requests = Append(@, info_request),
                          !.applications[a].status = "INFO_REQUESTED"],
                <<Note(d.applications[a].customer_id, "INFO_REQUESTED")>>)

\* POST /info-requests/respond
respond_to_info_request(d, u, r) ==
    IF r \notin DOMAIN d.info_requests THEN Err(HTTP_404_NOT_FOUND, d)
    ELSE LET info_request == d.info_requests[r]
             application == d.applications[info_request.application_id]
         IN
    IF users[u].role = "CUSTOMER" /\ application.customer_id # u
        THEN Err(HTTP_403_FORBIDDEN, d)
    ELSE IF users[u].role = "FINANCIER"
            /\ info_request.financier_id # users[u].financier_id
        THEN Err(HTTP_403_FORBIDDEN, d)
    ELSE Ok([d EXCEPT !.info_requests[r].responses = Append(@, u),
                      !.info_requests[r].status = "RESPONDED"],
            IF users[u].role = "CUSTOMER"
            THEN NotifyAll(financier_user_ids(info_request.financier_id), "INFO_PROVIDED")
            ELSE <<>>)

\* ------------------------------------------------------------------ offers
\* create_offer without its assignment check (offers.py 38-45 left out).
create_offer_unassigned(d, u, a, monthly_payment) ==
    IF ~require_role(u, "FINANCIER") THEN Err(HTTP_403_FORBIDDEN, d)
    ELSE IF a \notin DOMAIN d.applications THEN Err(HTTP_404_NOT_FOUND, d)
    ELSE LET offer == [application_id |-> a, financier_id |-> users[u].financier_id,
                       status |-> "DRAFT", monthly_payment |-> monthly_payment,
                       sent_at |-> NULL, responded_at |-> NULL]
         IN  Ok([d EXCEPT !.offers = Append(@, offer)], <<>>)

\* POST /offers/
create_offer(d, u, a, monthly_payment) ==
    IF ~require_role(u, "FINANCIER") THEN Err(HTTP_403_FORBIDDEN, d)
    ELSE IF a \notin DOMAIN d.applications THEN Err(HTTP_404_NOT_FOUND, d)
    ELSE IF AssignmentsOf(d, a, users[u].financier_id) = {}
        THEN Err(HTTP_403_FORBIDDEN, d)
    ELSE LET offer == [application_id |-> a, financier_id |-> users[u].financier_id,
                       status |-> "DRAFT", monthly_payment |-> monthly_payment,
                       sent_at |-> NULL, responded_at |-> NULL]
         IN  Ok([d EXCEPT !.offers = Append(@, offer)], <<>>)

\* update_offer without the skip of the status field (offers.py 84 left out).
update_offer_applying_status(d, u, o, patch) ==
    IF ~require_role(u, "FINANCIER") THEN Err(HTTP_403_FORBIDDEN, d)
    ELSE IF o \notin DOMAIN d.offers THEN Err(HTTP_404_NOT_FOUND, d)
    ELSE IF d.offers[o].financier_id # users[u].financier_id
        THEN Err(HTTP_403_FORBIDDEN, d)
    ELSE IF d.offers[o].status # "DRAFT" THEN Err(HTTP_400_BAD_REQUEST, d)
    ELSE LET updated ==
                 [field \in DOMAIN d.offers[o] |->
                     IF field \in DOMAIN patch
                     THEN patch[field] ELSE d.offers[o][field]]
         IN  Ok([d EXCEPT !.offers[o] = updated], <<>>)

\* PUT /offers/{id}. patch maps the fields the request sets to values.
update_offer(d, u, o, patch) ==
    IF ~require_role(u, "FINANCIER") THEN Err(HTTP_403_FORBIDDEN, d)
    ELSE IF o \notin DOMAIN d.offers THEN Err(HTTP_404_NOT_FOUND, d)
    ELSE IF d.offers[o].financier_id # users[u].financier_id
        THEN Err(HTTP_403_FORBIDDEN, d)
    ELSE IF d.offers[o].status # "DRAFT" THEN Err(HTTP_400_BAD_REQUEST, d)
    ELSE LET updated ==
                 [field \in DOMAIN d.offers[o] |->
                     IF field \in DOMAIN patch /\ field # "status"
                     THEN patch[field] ELSE d.offers[o][field]]
         IN  Ok([d EXCEPT !.offers[o] = updated], <<>>)

AdminIds == {u \in UserIds : users[u].role = "ADMIN" /\ users[u].is_active}

\* POST /offers/{id}/send
send_offer_to_admin(d, u, o) ==
    IF ~require_role(u, "FINANCIER") THEN Err(HTTP_403_FORBIDDEN, d)
    ELSE IF o \notin DOMAIN d.offers THEN Err(HTTP_404_NOT_FOUND, d)
    ELSE IF d.offers[o].financier_id # users[u].financier_id
        THEN Err(HTTP_403_FORBIDDEN, d)
    ELSE IF d.offers[o].status # "DRAFT" THEN Err(HTTP_400_BAD_REQUEST, d)
    ELSE Ok([d EXCEPT !.offers[o].status = "PENDING_ADMIN"],
            NotifyAll(AdminIds, "OFFER_PENDING"))

\* approve_and_send_offer without the update of the application's status
\* (offers.py 202 left out).
approve_and_send_offer_keeping_application_status(d, u, o) ==
    IF ~require_role(u, "ADMIN") THEN Err(HTTP_403_FORBIDDEN, d)
    ELSE IF o \notin DOMAIN d.offers THEN Err(HTTP_404_NOT_FOUND, d)
    ELSE IF d.offers[o].status # "PENDING_ADMIN" THEN Err(HTTP_400_BAD_REQUEST, d)
    ELSE LET a == d.offers[o].application_id IN
         Ok([d EXCEPT !.offers[o].status = "SENT",
                      !.offers[o].sent_at = "stamped"],
            <<Note(d.applications[a].customer_id, "OFFER_SENT")>>)

\* POST /offers/{id}/approve
approve_and_send_offer(d, u, o) ==
    IF ~require_role(u, "ADMIN") THEN Err(HTTP_403_FORBIDDEN, d)
    ELSE IF o \notin DOMAIN d.offers THEN Err(HTTP_404_NOT_FOUND, d)
    ELSE IF d.offers[o].status # "PENDING_ADMIN" THEN Err(HTTP_400_BAD_REQUEST, d)
    ELSE LET a == d.offers[o].application_id IN
         Ok([d EXCEPT !.offers[o].status = "SENT",
                      !.offers[o].sent_at = "stamped",
                      !.applications[a].status = "OFFER_SENT"],
            <<Note(d.applications[a].customer_id, "OFFER_SENT")>>)

\* accept_offer without its status check (offers.py 244-245 left out).
accept_offer_in_any_status(d, u, o) ==
    IF ~require_role(u, "CUSTOMER") THEN Err(HTTP_403_FORBIDDEN, d)
    ELSE IF o \notin DOMAIN d.offers THEN Err(HTTP_404_NOT_FOUND, d)
    ELSE LET a == d.offers[o].application_id IN
    IF d.applications[a].customer_id # u THEN Err(HTTP_403_FORBIDDEN, d)
    ELSE Ok([d EXCEPT !.offers[o].status = "ACCEPTED",
                      !.offers[o].responded_at = "stamped",
                      !.applications[a].status = "OFFER_ACCEPTED"],
            NotifyAll(financier_user_ids(d.offers[o].financier_id), "OFFER_ACCEPTED"))

\* accept_offer that also rejects the other SENT offers of the application,
\* which the route (offers.py 256-263) does not do.
accept_offer_rejecting_siblings(d, u, o) ==
    IF ~require_role(u, "CUSTOMER") THEN Err(HTTP_403_FORBIDDEN, d)
    ELSE IF o \notin DOMAIN d.offers THEN Err(HTTP_404_NOT_FOUND, d)
    ELSE IF d.offers[o].status # "SENT" THEN Err(HTTP_400_BAD_REQUEST, d)
    ELSE LET a == d.offers[o].application_id IN
    IF d.applications[a].customer_id # u THEN Err(HTTP_403_FORBIDDEN, d)
    ELSE Ok([d EXCEPT !.offers =
                          [i \in DOMAIN @ |->
                              IF i = o
                              THEN [@[i] EXCEPT !.status = "ACCEPTED",
                                                !.responded_at = "stamped"]
                              ELSE IF @[i].application_id = a /\ @[i].status = "SENT"
                              THEN [@[i] EXCEPT !.status = "REJECTED"]
                              ELSE @[i]],
                      !.applications[a].status = "OFFER_ACCEPTED"],
            NotifyAll(financier_user_ids(d.offers[o].financier_id), "OFFER_ACCEPTED"))

\* POST /offers/{id}/accept
accept_offer(d, u, o) ==
    IF ~require_role(u, "CUSTOMER") THEN Err(HTTP_403_FORBIDDEN, d)
    ELSE IF o \notin DOMAIN d.offers THEN Err(HTTP_404_NOT_FOUND, d)
    ELSE IF d.offers[o].status # "SENT" THEN Err(HTTP_400_BAD_REQUEST, d)
    ELSE LET a == d.offers[o].application_id IN
    IF d.applications[a].customer_id # u THEN Err(HTTP_403_FORBIDDEN, d)
    ELSE Ok([d EXCEPT !.offers[o].status = "ACCEPTED",
                      !.offers[o].responded_at = "stamped",
                      !.applications[a].status = "OFFER_ACCEPTED"],
            NotifyAll(financier_user_ids(d.offers[o].financier_id), "OFFER_ACCEPTED"))

\* POST /offers/{id}/reject
reject_offer(d, u, o) ==
    IF ~require_role(u, "CUSTOMER") THEN Err(HTTP_403_FORBIDDEN, d)
    ELSE IF o \notin DOMAIN d.offers THEN Err(HTTP_404_NOT_FOUND, d)
    ELSE IF d.offers[o].status # "SENT" THEN Err(HTTP_400_BAD_REQUEST, d)
    ELSE LET a == d.offers[o].application_id IN
    IF d.applications[a].customer_id # u THEN Err(HTTP_403_FORBIDDEN, d)
    ELSE Ok([d EXCEPT !.offers[o].status = "REJECTED",
                      !.offers[o].responded_at = "stamped",
                      !.applications[a].status = "OFFER_REJECTED"],
            <<>>)

\* The offer statuses a customer is not shown.
HiddenFromCustomer == {"DRAFT", "PENDING_ADMIN"}

\* get_application_offers without the customer's status filter (offers.py
\* 370-376 left out): a customer is shown every offer of the application.
get_application_offers_unfiltered(d, u, a) ==
    IF a \notin DOMAIN d.applications THEN [code |-> HTTP_404_NOT_FOUND, body |-> {}]
    ELSE IF users[u].role = "CUSTOMER" /\ d.applications[a].customer_id # u
        THEN [code |-> HTTP_403_FORBIDDEN, body |-> {}]
    ELSE IF users[u].role = "FINANCIER"
        THEN [code |-> HTTP_200_OK,
              body |-> {o \in DOMAIN d.offers :
                          /\ d.offers[o].application_id = a
                          /\ d.offers[o].financier_id = users[u].financier_id}]
    ELSE [code |-> HTTP_200_OK,
          body |-> {o \in DOMAIN d.offers : d.offers[o].application_id = a}]

\* GET /offers/application/{id}: the ids of the offers returned.
get_application_offers(d, u, a) ==
    IF a \notin DOMAIN d.applications THEN [code |-> HTTP_404_NOT_FOUND, body |-> {}]
    ELSE IF users[u].role = "CUSTOMER" /\ d.applications[a].customer_id # u
        THEN [code |-> HTTP_403_FORBIDDEN, body |-> {}]
    ELSE IF users[u].role = "CUSTOMER"
        THEN [code |-> HTTP_200_OK,
              body |-> {o \in DOMAIN d.offers :
                          /\ d.offers[o].application_id = a
                          /\ d.offers[o].status \notin HiddenFromCustomer}]
    ELSE IF users[u].role = "FINANCIER"
        THEN [code |-> HTTP_200_OK,
              body |-> {o \in DOMAIN d.offers :
                          /\ d.offers[o].application_id = a
                          /\ d.offers[o].financier_id = users[u].financier_id}]
    ELSE [code |-> HTTP_200_OK,
          body |-> {o \in DOMAIN d.offers : d.offers[o].application_id = a}]

\* GET /offers/{id}: the id of the offer returned.
get_offer(d, u, o) ==
    IF o \notin DOMAIN d.offers THEN [code |-> HTTP_404_NOT_FOUND, body |-> {}]
    ELSE LET application == d.applications[d.offers[o].application_id] IN
    IF users[u].role = "CUSTOMER" /\ application.customer_id # u
        THEN [code |-> HTTP_403_FORBIDDEN, body |-> {}]
    ELSE IF users[u].role = "CUSTOMER" /\ d.offers[o].status \in HiddenFromCustomer
        THEN [code |-> HTTP_403_FORBIDDEN, body |-> {}]
    ELSE IF users[u].role = "FINANCIER"
            /\ d.offers[o].financier_id # users[u].financier_id
        THEN [code |-> HTTP_403_FORBIDDEN, body |-> {}]
    ELSE [code |-> HTTP_200_OK, body |-> {o}]

\* --------------------------------------------------------------- contracts
\* Python truthiness of an optional string or amount: None, "" and 0.0 are false.
Truthy(x) == x \notin {NULL, "", "0.0"}

\* x or y
OrElse(x, y) == IF Truthy(x) THEN x ELSE y

\* The application statuses in which a contract may be created.
allowed_statuses == {"OFFER_ACCEPTED", "CONTRACT_SENT"}

\* select(Offer).where(Offer.id == offer_id, Offer.status == ACCEPTED), run only
\* for a truthy offer_id (0 stands for None): the ids of the rows found.
accepted_offer(d, offer_id) ==
    {o \in DOMAIN d.offers :
        offer_id # 0 /\ o = offer_id /\ d.offers[o].status = "ACCEPTED"}

\* create_contract without the check of the application's status
\* (contracts.py 61-70 left out).
create_contract_in_any_status(d, u, a, offer_id, monthly_rent) ==
    IF ~require_role(u, "FINANCIER") THEN Err(HTTP_403_FORBIDDEN, d)
    ELSE IF a \notin DOMAIN d.applications THEN Err(HTTP_404_NOT_FOUND, d)
    ELSE IF AssignmentsOf(d, a, users[u].financier_id) = {}
        THEN Err(HTTP_403_FORBIDDEN, d)
    ELSE LET prefill == IF accepted_offer(d, offer_id) # {}
                        THEN d.offers[offer_id].monthly_payment ELSE NULL
             contract ==
                 [application_id |-> a, financier_id |-> users[u].financier_id,
                  offer_id |-> offer_id,
                  lessee_company_name |-> OrElse(NULL, d.applications[a].company_name),
                  monthly_rent |->
                      OrElse(monthly_rent, prefill),
                  status |-> "DRAFT", sent_at |-> NULL, signed_at |-> NULL,
                  lessee_signature_date |-> NULL, lessee_signature_place |-> NULL,
                  lessee_signer_name |-> NULL, signed_file_id |-> NULL]
         IN  Ok([d EXCEPT !.contracts = Append(@, contract)], <<>>)

\* POST /contracts/
create_contract(d, u, a, offer_id, monthly_rent) ==
    IF ~require_role(u, "FINANCIER") THEN Err(HTTP_403_FORBIDDEN, d)
    ELSE IF a \notin DOMAIN d.applications THEN Err(HTTP_404_NOT_FOUND, d)
    ELSE IF AssignmentsOf(d, a, users[u].financier_id) = {}
        THEN Err(HTTP_403_FORBIDDEN, d)
    ELSE IF d.applications[a].status \notin allowed_statuses
        THEN Err(HTTP_400_BAD_REQUEST, d)
    ELSE LET prefill == IF accepted_offer(d, offer_id) # {}
                        THEN d.offers[offer_id].monthly_payment ELSE NULL
             contract ==
                 [application_id |-> a, financier_id |-> users[u].financier_id,
                  offer_id |-> offer_id,
                  lessee_company_name |-> OrElse(NULL, d.applications[a].company_name),
                  monthly_rent |->
                      OrElse(monthly_rent, prefill),
                  status |-> "DRAFT", sent_at |-> NULL, signed_at |-> NULL,
                  lessee_signature_date |-> NULL, lessee_signature_place |-> NULL,
                  lessee_signer_name |-> NULL, signed_file_id |-> NULL]
         IN  Ok([d EXCEPT !.contracts = Append(@, contract)], <<>>)

\* PUT /contracts/{id}. patch maps the fields the request sets to values.
update_contract(d, u, c, patch) ==
    IF ~require_role(u, "FINANCIER") THEN Err(HTTP_403_FORBIDDEN, d)
    ELSE IF c \notin DOMAIN d.contracts THEN Err(HTTP_404_NOT_FOUND, d)
    ELSE IF d.contracts[c].financier_id # users[u].financier_id
        THEN Err(HTTP_403_FORBIDDEN, d)
    ELSE IF d.contracts[c].status # "DRAFT" THEN Err(HTTP_400_BAD_REQUEST, d)
    ELSE LET updated ==
                 [key \in DOMAIN d.contracts[c] |->
                     IF key \in DOMAIN patch THEN patch[key] ELSE d.contracts[c][key]]
         IN  Ok([d EXCEPT !.contracts[c] = updated], <<>>)

\* send_contract without its completeness gate (contracts.py 359-363 left out).
send_contract_without_validation(d, u, c) ==
    IF ~require_role(u, "FINANCIER") THEN Err(HTTP_403_FORBIDDEN, d)
    ELSE IF c \notin DOMAIN d.contracts THEN Err(HTTP_404_NOT_FOUND, d)
    ELSE IF d.contracts[c].financier_id # users[u].financier_id
        THEN Err(HTTP_403_FORBIDDEN, d)
    ELSE IF d.contracts[c].status # "DRAFT" THEN Err(HTTP_400_BAD_REQUEST, d)
    ELSE LET a == d.contracts[c].application_id IN
         Ok([d EXCEPT !.contracts[c].status = "SENT",
                      !.contracts[c].sent_at = "stamped",
                      !.applications[a].status = "CONTRACT_SENT"],
            <<Note(d.applications[a].customer_id, "CONTRACT_SENT")>>)

\* POST /contracts/{id}/send
send_contract(d, u, c) ==
    IF ~require_role(u, "FINANCIER") THEN Err(HTTP_403_FORBIDDEN, d)
    ELSE IF c \notin DOMAIN d.contracts THEN Err(HTTP_404_NOT_FOUND, d)
    ELSE IF d.contracts[c].financier_id # users[u].financier_id
        THEN Err(HTTP_403_FORBIDDEN, d)
    ELSE IF d.contracts[c].status # "DRAFT" THEN Err(HTTP_400_BAD_REQUEST, d)
    ELSE IF ~Truthy(d.contracts[c].lessee_company_name)
        THEN Err(HTTP_400_BAD_REQUEST, d)
    ELSE IF ~Truthy(d.contracts[c].monthly_rent) THEN Err(HTTP_400_BAD_REQUEST, d)
    ELSE LET a == d.contracts[c].application_id IN
         Ok([d EXCEPT !.contracts[c].status = "SENT",
                      !.contracts[c].sent_at = "stamped",
                      !.applications[a].status = "CONTRACT_SENT"],
            <<Note(d.applications[a].customer_id, "CONTRACT_SENT")>>)

\* sign_contract without its ownership check (contracts.py 422-429 left out).
sign_contract_by_any_customer(d, u, c) ==
    IF ~require_role(u, "CUSTOMER") THEN Err(HTTP_403_FORBIDDEN, d)
    ELSE IF c \notin DOMAIN d.contracts THEN Err(HTTP_404_NOT_FOUND, d)
    ELSE LET a == d.contracts[c].application_id IN
    IF d.contracts[c].status # "SENT" THEN Err(HTTP_400_BAD_REQUEST, d)
    ELSE Ok([d EXCEPT !.contracts[c].lessee_signature_date = "stamped",
                      !.contracts[c].lessee_signature_place = "Finland",
                      !.contracts[c].lessee_signer_name = u,
                      !.contracts[c].status = "SIGNED",
                      !.contracts[c].signed_at = "stamped",
                      !.applications[a].status = "SIGNED"],
            NotifyAll(financier_user_ids(d.contracts[c].financier_id), "CONTRACT_SIGNED"))

\* POST /contracts/{id}/sign, with the default signature_place and no
\* signer_name: the signer is named after the account.
sign_contract(d, u, c) ==
    IF ~require_role(u, "CUSTOMER") THEN Err(HTTP_403_FORBIDDEN, d)
    ELSE IF c \notin DOMAIN d.contracts THEN Err(HTTP_404_NOT_FOUND, d)
    ELSE LET a == d.contracts[c].application_id IN
    IF d.applications[a].customer_id # u THEN Err(HTTP_403_FORBIDDEN, d)
    ELSE IF d.contracts[c].status # "SENT" THEN Err(HTTP_400_BAD_REQUEST, d)
    ELSE Ok([d EXCEPT !.contracts[c].lessee_signature_date = "stamped",
                      !.contracts[c].lessee_signature_place = "Finland",
                      !.contracts[c].lessee_signer_name = u,
                      !.contracts[c].status = "SIGNED",
                      !.contracts[c].signed_at = "stamped",
                      !.applications[a].status = "SIGNED"],
            NotifyAll(financier_user_ids(d.contracts[c].financier_id), "CONTRACT_SIGNED"))

\* The files a customer may upload as the signed contract.
SignedFileInputs == {"signed.pdf", "signed.docx", "oversized.pdf"}

\* POST /contracts/{id}/upload-signed
upload_signed_contract(d, u, c, file) ==
    IF ~require_role(u, "CUSTOMER") THEN Err(HTTP_403_FORBIDDEN, d)
    ELSE IF c \notin DOMAIN d.contracts THEN Err(HTTP_404_NOT_FOUND, d)
    ELSE LET a == d.contracts[c].application_id IN
    IF d.applications[a].customer_id # u THEN Err(HTTP_403_FORBIDDEN, d)
    ELSE IF d.contracts[c].status # "SENT" THEN Err(HTTP_400_BAD_REQUEST, d)
    ELSE IF file = "signed.docx" THEN Err(HTTP_400_BAD_REQUEST, d)
    ELSE IF file = "oversized.pdf" THEN Err(HTTP_400_BAD_REQUEST, d)
    ELSE Ok([d EXCEPT !.contracts[c].signed_file_id = "file",
                      !.contracts[c].status = "SIGNED",
                      !.contracts[c].signed_at = "stamped",
                      !.contracts[c].lessee_signature_date = "stamped",
                      !.contracts[c].lessee_signer_name = u,
                      !.applications[a].status = "SIGNED"],
            NotifyAll(financier_user_ids(d.contracts[c].financier_id), "CONTRACT_SIGNED"))

\* get_application_contracts without the customer's status filter
\* (contracts.py 622 left out): a customer is shown the drafts as well.
get_application_contracts_unfiltered(d, u, a) ==
    IF a \notin DOMAIN d.applications THEN [code |-> HTTP_404_NOT_FOUND, body |-> {}]
    ELSE IF users[u].role = "CUSTOMER" /\ d.applications[a].customer_id # u
        THEN [code |-> HTTP_403_FORBIDDEN, body |-> {}]
    ELSE IF users[u].role = "FINANCIER"
        THEN [code |-> HTTP_200_OK,
              body |-> {c \in DOMAIN d.contracts :
                          /\ d.contracts[c].application_id = a
                          /\ d.contracts[c].financier_id = users[u].financier_id}]
    ELSE [code |-> HTTP_200_OK,
          body |-> {c \in DOMAIN d.contracts : d.contracts[c].application_id = a}]

\* GET /contracts/application/{id}: the ids of the contracts returned.
get_application_contracts(d, u, a) ==
    IF a \notin DOMAIN d.applications THEN [code |-> HTTP_404_NOT_FOUND, body |-> {}]
    ELSE IF users[u].role = "CUSTOMER" /\ d.applications[a].customer_id # u
        THEN [code |-> HTTP_403_FORBIDDEN, body |-> {}]
    ELSE IF users[u].role = "CUSTOMER"
        THEN [code |-> HTTP_200_OK,
              body |-> {c \in DOMAIN d.contracts :
                          /\ d.contracts[c].application_id = a
                          /\ d.contracts[c].status # "DRAFT"}]
    ELSE IF users[u].role = "FINANCIER"
        THEN [code |-> HTTP_200_OK,
              body |-> {c \in DOMAIN d.contracts :
                          /\ d.contracts[c].application_id = a
                          /\ d.contracts[c].financier_id = users[u].financier_id}]
    ELSE [code |-> HTTP_200_OK,
          body |-> {c \in DOMAIN d.contracts : d.contracts[c].application_id = a}]

\* GET /contracts/{id}: the id of the contract returned.
get_contract(d, u, c) ==
    IF c \notin DOMAIN d.contracts THEN [code |-> HTTP_404_NOT_FOUND, body |-> {}]
    ELSE LET application == d.applications[d.contracts[c].application_id] IN
    IF users[u].role = "CUSTOMER" /\ application.customer_id # u
        THEN [code |-> HTTP_403_FORBIDDEN, body |-> {}]
    ELSE IF users[u].role = "CUSTOMER" /\ d.contracts[c].status = "DRAFT"
        THEN [code |-> HTTP_403_FORBIDDEN, body |-> {}]
    ELSE IF users[u].role = "FINANCIER"
            /\ d.contracts[c].financier_id # users[u].financier_id
        THEN [code |-> HTTP_403_FORBIDDEN, body |-> {}]
    ELSE [code |-> HTTP_200_OK, body |-> {c}]

\* ------------------------------------------------------------ input sets
\* The monthly rents a contract form is examined with: left out, zero, and an
\* amount other than the offer's.
ContractRentForms == {NULL, "0.0", "450.0"}

\* The users that submit applications.
CreatorInputs == {"c1"}

\* Ids named in requests: those of the rows that may exist.
ApplicationIdInputs == 1..MaxApps

InfoRequestIdInputs == 1..MaxInfoRequests

OfferIdInputs == 1..MaxOffers

ContractIdInputs == 1..MaxContracts

AssignmentIdInputs ==
    {<<a, f, n>> : a \in ApplicationIdInputs, f \in FinancierIds, n \in 1..MaxConcurrent}

\* The bodies of PUT /applications/{id} that are tried: each sets the status.
ApplicationPatches == {("status" :> s) : s \in {"OFFER_ACCEPTED", "CLOSED"}}

\* The bodies of PUT /offers/{id} that are tried.
OfferPatches == {("status" :> s) : s \in {"SENT", "ACCEPTED"}}

\* The bodies of PUT /contracts/{id} that are tried.
ContractPatches == {("status" :> s) : s \in {"SIGNED", "EXPIRED"}}

\* The connections on which assign requests arrive concurrently.
RequestIds == 1..MaxConcurrent

\* A connection with no request on it yet. code 0: no response yet.
IdleRequest ==
    [pc |-> "idle", user_id |-> NULL, application_id |-> 0, financier_id |-> NULL,
     code |-> 0, overlapped |-> FALSE]

\* No request is being followed. code 0: no response yet.
IdleCall ==
    [pc |-> "idle", op |-> NULL, user_id |-> NULL, application_id |-> 0,
     financier_id |-> NULL, offer_id |-> 0, steps |-> <<>>, step |-> 0,
     committed |-> FALSE, notified |-> <<>>, emailed |-> <<>>, code |-> 0]

\* ------------------------------------------------------------------ state
Init ==
    /\ financiers = [f \in FinancierIds |-> [is_active |-> TRUE]]
    /\ applications = <<>>
    /\ assignments = {}
    /\ info_requests = <<>>
    /\ offers = <<>>
    /\ contracts = <<>>
    /\ requests = [r \in RequestIds |-> IdleRequest]
    /\ call = IdleCall
    /\ notifications = <<>>

\* The database after a request is the one its response carries.
ApplyDB(response) ==
    /\ financiers' = response.db.financiers
    /\ applications' = response.db.applications
    /\ assignments' = response.db.assignments
    /\ info_requests' = response.db.info_requests
    /\ offers' = response.db.offers
    /\ contracts' = response.db.contracts
    /\ UNCHANGED <<requests, call>>

\* The notifications of the request are part of its response; the rows of
\* the notifications table are followed by ApplyAndNotify.
Apply(response) ==
    /\ ApplyDB(response)
    /\ UNCHANGED notifications

CreateApplication ==
    /\ Len(applications) < MaxApps
    /\ \E u \in CreatorInputs : Apply(create_application(DB, u))

UpdateApplication ==
    \E u \in UserIds, a \in ApplicationIdInputs, patch \in ApplicationPatches :
        Apply(update_application(DB, u, a, patch))

DeleteFinancier ==
    \E u \in UserIds, f \in FinancierIds : Apply(delete_financier(DB, u, f))

UpdateFinancier ==
    \E u \in UserIds, f \in FinancierIds : Apply(update_financier(DB, u, f, TRUE))

AssignToFinancier ==
    /\ \E u \in UserIds, a \in ApplicationIdInputs, f \in FinancierIds :
           Apply(assign_to_financier(DB, u, a, f))

RemoveAssignment ==
    \E u \in UserIds, id \in AssignmentIdInputs : Apply(remove_assignment(DB, u, id))

CreateInfoRequest ==
    /\ Len(info_requests) < MaxInfoRequests
    /\ ChildRows(DB) < MaxChildRows
    /\ \E u \in UserIds, a \in ApplicationIdInputs : Apply(create_info_request(DB, u, a))

RespondToInfoRequest ==
    \E u \in UserIds, r \in InfoRequestIdInputs :
        /\ r \in DOMAIN info_requests => Len(info_requests[r].responses) < MaxResponses
        /\ Apply(respond_to_info_request(DB, u, r))

CreateOffer ==
    /\ Len(offers) < MaxOffers
    /\ ChildRows(DB) < MaxChildRows
    /\ \E u \in UserIds, a \in ApplicationIdInputs, p \in OfferPaymentInputs :
           Apply(create_offer(DB, u, a, p))

UpdateOffer ==
    \E u \in UserIds, o \in OfferIdInputs, patch \in OfferPatches :
        Apply(update_offer(DB, u, o, patch))

SendOfferToAdmin ==
    \E u \in UserIds, o \in OfferIdInputs : Apply(send_offer_to_admin(DB, u, o))

ApproveAndSendOffer ==
    \E u \in UserIds, o \in OfferIdInputs : Apply(approve_and_send_offer(DB, u, o))

AcceptOffer ==
    \E u \in UserIds, o \in OfferIdInputs : Apply(accept_offer(DB, u, o))

RejectOffer ==
    \E u \in UserIds, o \in OfferIdInputs : Apply(reject_offer(DB, u, o))

CreateContract ==
    /\ Len(contracts) < MaxContracts
    /\ ChildRows(DB) < MaxChildRows
    /\ \E u \in UserIds, a \in ApplicationIdInputs,
          offer_id \in {0} \cup DOMAIN offers, rent \in ContractRentInputs :
           Apply(create_contract(DB, u, a, offer_id, rent))

UpdateContract ==
    \E u \in UserIds, c \in ContractIdInputs, patch \in ContractPatches :
        Apply(update_contract(DB, u, c, patch))

SendContract ==
    \E u \in UserIds, c \in ContractIdInputs : Apply(send_contract(DB, u, c))

SignContract ==
    \E u \in UserIds, c \in ContractIdInputs : Apply(sign_contract(DB, u, c))

UploadSignedContract ==
    \E u \in UserIds, c \in ContractIdInputs, file \in SignedFileInputs :
        Apply(upload_signed_contract(DB, u, c, file))

Next ==
    \/ CreateApplication
    \/ UpdateApplication
    \/ AssignToFinancier
    \/ RemoveAssignment
    \/ CreateInfoRequest
    \/ RespondToInfoRequest
    \/ CreateOffer
    \/ UpdateOffer
    \/ SendOfferToAdmin
    \/ ApproveAndSendOffer
    \/ AcceptOffer
    \/ RejectOffer
    \/ CreateContract
    \/ UpdateContract
    \/ SendContract
    \/ SignContract
    \/ UploadSignedContract

Spec == Init /\ [][Next]_vars

\* The workflow operations alone, without the generic PUT updates.
NextFlow ==
    \/ CreateApplication
    \/ AssignToFinancier
    \/ RemoveAssignment
    \/ CreateInfoRequest
    \/ RespondToInfoRequest
    \/ CreateOffer
    \/ SendOfferToAdmin
    \/ ApproveAndSendOffer
    \/ AcceptOffer
    \/ RejectOffer
    \/ CreateContract
    \/ SendContract
    \/ SignContract
    \/ UploadSignedContract

SpecFlow == Init /\ [][NextFlow]_vars

\* Routing: applications, financiers that are deactivated and reactivated, and
\* assignments made and removed one request at a time.
NextAssign ==
    \/ CreateApplication
    \/ UpdateApplication
    \/ DeleteFinancier
    \/ UpdateFinancier
    \/ AssignToFinancier
    \/ RemoveAssignment
    \/ CreateInfoRequest
    \/ RespondToInfoRequest

SpecAssign == Init /\ [][NextAssign]_vars

\* ------------------------------------------------- concurrent assignment
\* Each request runs in a session of its own; the database serialises single
\* statements only. A request first does its reads (lines 28-62), and, when
\* they pass, its insert, its status update and its commit (lines 64-78).
SamePair(q, a, f) == q.application_id = a /\ q.financier_id = f

\* A request arrives on connection r and does its reads.
AssignBegin(r) ==
    /\ requests[r].pc # "checked"
    /\ \E u \in UserIds, a \in ApplicationIdInputs, f \in FinancierIds :
          LET code == assign_check(DB, u, a, f)
              rivals == {q \in RequestIds \ {r} :
                           requests[q].pc = "checked" /\ SamePair(requests[q], a, f)}
          IN  requests' =
                  [q \in RequestIds |->
                      IF q = r
                      THEN [pc |-> IF code = HTTP_200_OK THEN "checked" ELSE "done",
                            user_id |-> u, application_id |-> a, financier_id |-> f,
                            code |-> IF code = HTTP_200_OK THEN 0 ELSE code,
                            overlapped |-> code = HTTP_200_OK /\ rivals # {}]
                      ELSE IF q \in rivals /\ code = HTTP_200_OK
                      THEN [requests[q] EXCEPT !.overlapped = TRUE]
                      ELSE requests[q]]
    /\ UNCHANGED <<financiers, applications, assignments, info_requests, offers, contracts,
                   call, notifications>>

\* The request on connection r inserts its row, sets the status and commits.
AssignCommit(r) ==
    /\ requests[r].pc = "checked"
    /\ LET q == requests[r]
           response == assign_commit(DB, q.user_id, q.application_id, q.financier_id)
       IN  /\ financiers' = response.db.financiers
           /\ applications' = response.db.applications
           /\ assignments' = response.db.assignments
           /\ info_requests' = response.db.info_requests
           /\ offers' = response.db.offers
           /\ contracts' = response.db.contracts
           /\ requests' = [requests EXCEPT ![r].pc = "done", ![r].code = response.code]
           /\ UNCHANGED <<call, notifications>>

NextRace ==
    \/ CreateApplication
    \/ \E r \in RequestIds : AssignBegin(r)
    \/ \E r \in RequestIds : AssignCommit(r)

SpecRace == Init /\ [][NextRace]_vars

\* ------------------------------------------- commit, then notify and mail
HTTP_500_INTERNAL_SERVER_ERROR == 500

\* The account the contact e-mail of a public application belongs to. The
\* accounts of the model are fixed; whether this one is already stored is
\* read by the request (is_new_user).
PublicApplicant == "c2"

\* POST /applications/public/leasing and /public/sale-leaseback: the rows the
\* commit stores. No in-app notification is created.
create_public_application(d, u) == Ok(create_application(d, u).db, <<>>)

\* The statements of a request that touch the database, the notifications
\* table or the mail server, in the order the route runs them.
Step(kind, user_id, type) == [kind |-> kind, user_id |-> user_id, type |-> type]

NotifySteps(notes) ==
    [i \in 1..Len(notes) |-> Step("notify", notes[i].user_id, notes[i].type)]

assign_to_financier_steps(d, u, a, f) ==
    <<Step("commit", NULL, NULL)>>
        \o NotifySteps(assign_commit(d, u, a, f).notified)
        \o <<Step("email", f, "APPLICATION_SUBMITTED_TO_FINANCIER")>>

approve_and_send_offer_steps(d, u, o) ==
    <<Step("commit", NULL, NULL)>>
        \o NotifySteps(approve_and_send_offer(d, u, o).notified)
        \o <<Step("email", d.applications[d.offers[o].application_id].customer_id,
                  "OFFER")>>

create_public_application_steps(u, is_new_user) ==
    (IF is_new_user
     THEN <<Step("flush", NULL, NULL), Step("email", u, "WELCOME")>>
     ELSE <<>>)
        \o <<Step("commit", NULL, NULL), Step("email", "admin", "NEW_APPLICATION")>>

\* The response of the followed request, were it run in one piece on d.
CallResponse(d) ==
    CASE call.op = "assign_to_financier" ->
             assign_commit(d, call.user_id, call.application_id, call.financier_id)
      [] call.op = "approve_and_send_offer" ->
             approve_and_send_offer(d, call.user_id, call.offer_id)
      [] call.op = "create_public_application" ->
             create_public_application(d, call.user_id)

BeginCall(op, u, a, f, o, steps) ==
    /\ call.pc # "running"
    /\ call' = [IdleCall EXCEPT !.pc = "running", !.op = op, !.user_id = u,
                                !.application_id = a, !.financier_id = f,
                                !.offer_id = o, !.steps = steps, !.step = 1]
    /\ UNCHANGED <<financiers, applications, assignments, info_requests, offers,
                   contracts, requests, notifications>>

BeginAssign ==
    \E u \in AdminIds, a \in ApplicationIdInputs, f \in FinancierIds :
        /\ assign_check(DB, u, a, f) = HTTP_200_OK
        /\ BeginCall("assign_to_financier", u, a, f, 0,
                     assign_to_financier_steps(DB, u, a, f))

BeginApprove ==
    \E u \in AdminIds, o \in OfferIdInputs :
        /\ approve_and_send_offer(DB, u, o).code = HTTP_200_OK
        /\ BeginCall("approve_and_send_offer", u, 0, NULL, o,
                     approve_and_send_offer_steps(DB, u, o))

BeginPublicApplication ==
    \E is_new_user \in BOOLEAN :
        /\ Len(applications) < MaxApps
        /\ is_new_user
               => \A a \in DOMAIN applications :
                      applications[a].customer_id # PublicApplicant
        /\ BeginCall("create_public_application", PublicApplicant, 0, NULL, 0,
                     create_public_application_steps(PublicApplicant, is_new_user))

\* The followed request runs its next statement, which succeeds (ok) or
\* raises. A raise of flush, commit or create_notification is handled nowhere
\* in the route: the request ends with 500 and the session's uncommitted rows
\* are dropped. send_email catches what it raises and returns False.
CallStep ==
    /\ call.pc = "running"
    /\ \E ok \in BOOLEAN :
          LET step == call.steps[call.step]
              after(c) == IF call.step = Len(call.steps)
                          THEN [c EXCEPT !.pc = "done", !.code = HTTP_200_OK]
                          ELSE [c EXCEPT !.step = @ + 1]
              raised == [call EXCEPT !.pc = "done",
                                     !.code = HTTP_500_INTERNAL_SERVER_ERROR]
              stored == IF step.kind = "commit" /\ ok THEN CallResponse(DB).db ELSE DB
          IN  /\ call' =
                    CASE step.kind = "email" /\ ok ->
                             after([call EXCEPT !.emailed =
                                        Append(@, [user_id |-> step.user_id,
                                                   type |-> step.type])])
                      [] step.kind = "email" /\ ~ok -> after(call)
                      [] step.kind = "notify" /\ ok ->
                             after([call EXCEPT !.notified =
                                        Append(@, Note(step.user_id, step.type))])
                      [] step.kind = "commit" /\ ok ->
                             after([call EXCEPT !.committed = TRUE])
                      [] step.kind = "flush" /\ ok -> after(call)
                      [] OTHER -> raised
              /\ financiers' = stored.financiers
              /\ applications' = stored.applications
              /\ assignments' = stored.assignments
              /\ info_requests' = stored.info_requests
              /\ offers' = stored.offers
              /\ contracts' = stored.contracts
              /\ UNCHANGED <<requests, notifications>>

\* Between followed requests the other routes run in one piece.
NextFanout ==
    \/ call.pc # "running" /\ CreateApplication
    \/ call.pc # "running" /\ CreateOffer
    \/ call.pc # "running" /\ SendOfferToAdmin
    \/ BeginAssign
    \/ BeginApprove
    \/ BeginPublicApplication
    \/ CallStep

SpecFanout == Init /\ [][NextFanout]_vars

\* ------------------------------------------------- the generic update form
\* The bodies PUT /applications/{id} is sent here: a status alone, a company
\* name alone, and a company name together with a status.
ApplicationFormPatches ==
    {("status" :> s) : s \in {"DRAFT", "CLOSED"}}
        \cup {("company_name" :> "NEWCO")}
        \cup {("company_name" :> "RENAMED") @@ ("status" :> "CANCELLED")}

UpdateApplicationForm ==
    \E u \in UserIds, a \in ApplicationIdInputs, patch \in ApplicationFormPatches :
        Apply(update_application(DB, u, a, patch))

NextUpdate ==
    \/ CreateApplication
    \/ UpdateApplicationForm
    \/ AssignToFinancier
    \/ CreateInfoRequest
    \/ CreateOffer
    \/ SendOfferToAdmin
    \/ ApproveAndSendOffer
    \/ AcceptOffer
    \/ RejectOffer

SpecUpdate == Init /\ [][NextUpdate]_vars

\* ------------------------------------------------- the contract draft form
\* The bodies PUT /contracts/{id} is sent here: the lessee's company name
\* blanked, and a monthly rent filled in.
ContractFormPatches ==
    {("lessee_company_name" :> ""), ("monthly_rent" :> "450.0")}

UpdateContractForm ==
    \E u \in UserIds, c \in ContractIdInputs, patch \in ContractFormPatches :
        Apply(update_contract(DB, u, c, patch))

NextContract ==
    \/ CreateApplication
    \/ AssignToFinancier
    \/ CreateOffer
    \/ SendOfferToAdmin
    \/ ApproveAndSendOffer
    \/ AcceptOffer
    \/ CreateContract
    \/ UpdateContractForm
    \/ SendContract

SpecContract == Init /\ [][NextContract]_vars

\* ------------------------------------------------ overlapping offer requests
\* The routes that read an offer, check it and write it back.
OfferOps ==
    {"update_offer", "send_offer_to_admin", "approve_and_send_offer",
     "accept_offer", "reject_offer"}

\* The body of PUT /offers/{id} that an overlapping update carries.
OfferTermPatches == {("monthly_payment" :> "350.0")}

\* The response of offer route op, were it run in one piece on d.
offer_route(op, d, u, o, patch) ==
    CASE op = "update_offer" -> update_offer(d, u, o, patch)
      [] op = "send_offer_to_admin" -> send_offer_to_admin(d, u, o)
      [] op = "approve_and_send_offer" -> approve_and_send_offer(d, u, o)
      [] op = "accept_offer" -> accept_offer(d, u, o)
      [] op = "reject_offer" -> reject_offer(d, u, o)

\* The session of a request flushes the attributes it has set to a value
\* other than the one it loaded: row `now` with the changes from `seen` to
\* `planned` written over it.
flush(now, seen, planned) ==
    [field \in DOMAIN now |->
        IF planned[field] # seen[field] THEN planned[field] ELSE now[field]]

\* A request on an offer arrives on connection r, selects the rows and runs
\* its checks on them; a request that is turned away is done.
OfferBegin(r) ==
    /\ requests[r].pc # "checked"
    /\ \E op \in OfferOps, u \in UserIds, o \in DOMAIN offers, patch \in OfferTermPatches :
          LET response == offer_route(op, DB, u, o, patch) IN
          requests' =
              [requests EXCEPT ![r] =
                  IF response.code = HTTP_200_OK
                  THEN [pc |-> "checked", op |-> op, user_id |-> u, offer_id |-> o,
                        patch |-> patch,
                        seen |-> [offer |-> offers[o],
                                  application |-> applications[offers[o].application_id]],
                        code |-> 0, notified |-> <<>>]
                  ELSE [pc |-> "done", op |-> op, user_id |-> NULL, offer_id |-> o,
                        patch |-> NULL, seen |-> NULL, code |-> response.code,
                        notified |-> <<>>]]
    /\ UNCHANGED <<financiers, applications, assignments, info_requests, offers, contracts,
                   call, notifications>>

\* The request on connection r sets the attributes on the rows it loaded,
\* commits, and creates its notifications.
OfferCommit(r) ==
    /\ requests[r].pc = "checked"
    /\ LET q == requests[r]
           o == q.offer_id
           a == q.seen.offer.application_id
           loaded == [DB EXCEPT !.offers[o] = q.seen.offer,
                                !.applications[a] = q.seen.application]
           planned == offer_route(q.op, loaded, q.user_id, o, q.patch)
       IN  /\ offers' = [offers EXCEPT ![o] =
                             flush(@, q.seen.offer, planned.db.offers[o])]
           /\ applications' = [applications EXCEPT ![a] =
                                   flush(@, q.seen.application,
                                         planned.db.applications[a])]
           /\ requests' = [requests EXCEPT ![r] =
                               [q EXCEPT !.pc = "done", !.seen = NULL,
                                         !.code = planned.code,
                                         !.notified = planned.notified]]
    /\ UNCHANGED <<financiers, assignments, info_requests, contracts, call,
                   notifications>>

NextOfferRace ==
    \/ CreateApplication
    \/ AssignToFinancier
    \/ Len(offers) < MaxRacedOffers /\ CreateOffer
    \/ \E r \in RequestIds : OfferBegin(r)
    \/ \E r \in RequestIds : OfferCommit(r)

SpecOfferRace == Init /\ [][NextOfferRace]_vars

\* ------------------------------------------------------ owners of applications
\* POST /applications/leasing by any logged-in account: the route depends on
\* get_current_user, not on a role.
CreateApplicationAs ==
    /\ Len(applications) < MaxApps
    /\ \E u \in UserIds : Apply(create_application(DB, u))

\* POST /applications/public/leasing with the contact e-mail of an account
\* that exists: the application is attached to the account found by e-mail.
CreatePublicApplicationFor ==
    /\ Len(applications) < MaxApps
    /\ \E u \in UserIds : Apply(create_public_application(DB, u))

NextOwner ==
    \/ CreateApplicationAs
    \/ CreatePublicApplicationFor
    \/ AssignToFinancier
    \/ CreateInfoRequest
    \/ CreateOffer
    \/ SendOfferToAdmin
    \/ ApproveAndSendOffer

SpecOwner == Init /\ [][NextOwner]_vars

\* ----------------------------------------------------------- notifications
\* NotificationService.create_notification: one row, unread.
create_notification(ns, user_id, notification_type) ==
    Append(ns, [user_id |-> user_id, notification_type |-> notification_type,
                is_read |-> FALSE])

\* The rows the notifications of a response add, in the order they are made.
RECURSIVE create_notifications(_, _)
create_notifications(ns, notes) ==
    IF notes = <<>> THEN ns
    ELSE create_notifications(
             create_notification(ns, Head(notes).user_id, Head(notes).type),
             Tail(notes))

\* mark_as_read with the filter on user_id left out
\* (notification_service.py 73).
mark_as_read_of_any_user(ns, notification_id, user_id) ==
    LET matched == {i \in DOMAIN ns : i = notification_id}
    IN  [notifications |->
             [i \in DOMAIN ns |->
                 IF i \in matched THEN [ns[i] EXCEPT !.is_read = TRUE] ELSE ns[i]],
         rowcount |-> Cardinality(matched)]

\* NotificationService.mark_as_read: UPDATE ... WHERE id = notification_id
\* AND user_id = user_id. The id of a row is its index.
mark_as_read(ns, notification_id, user_id) ==
    LET matched == {i \in DOMAIN ns : i = notification_id /\ ns[i].user_id = user_id}
    IN  [notifications |->
             [i \in DOMAIN ns |->
                 IF i \in matched THEN [ns[i] EXCEPT !.is_read = TRUE] ELSE ns[i]],
         rowcount |-> Cardinality(matched)]

\* NotificationService.mark_all_as_read: UPDATE ... WHERE user_id = user_id
\* AND is_read = False.
mark_all_as_read(ns, user_id) ==
    LET matched == {i \in DOMAIN ns : ns[i].user_id = user_id /\ ~ns[i].is_read}
    IN  [notifications |->
             [i \in DOMAIN ns |->
                 IF i \in matched THEN [ns[i] EXCEPT !.is_read = TRUE] ELSE ns[i]],
         rowcount |-> Cardinality(matched)]

\* PUT /notifications/{notification_id}/read
mark_notification_read(ns, u, notification_id) ==
    LET marked == mark_as_read(ns, notification_id, u)
    IN  [code |-> IF marked.rowcount > 0 THEN HTTP_200_OK ELSE HTTP_404_NOT_FOUND,
         notifications |-> marked.notifications]

\* PUT /notifications/read-all
mark_all_read(ns, u) ==
    [code |-> HTTP_200_OK, notifications |-> mark_all_as_read(ns, u).notifications]

NotificationIdInputs == 1..MaxNotifications

\* A request whose notifications are stored in the notifications table.
ApplyAndNotify(response) ==
    /\ Len(notifications) + Len(response.notified) <= MaxNotifications
    /\ ApplyDB(response)
    /\ notifications' = create_notifications(notifications, response.notified)

CreateApplicationAndNotify ==
    /\ Len(applications) < MaxApps
    /\ \E u \in CreatorInputs : ApplyAndNotify(create_application(DB, u))

AssignToFinancierAndNotify ==
    \E u \in UserIds, a \in ApplicationIdInputs, f \in FinancierIds :
        ApplyAndNotify(assign_to_financier(DB, u, a, f))

RemoveAssignmentAndNotify ==
    \E u \in UserIds, id \in AssignmentIdInputs :
        ApplyAndNotify(remove_assignment(DB, u, id))

MarkNotificationRead ==
    /\ \E u \in UserIds, n \in NotificationIdInputs :
           notifications' = mark_notification_read(notifications, u, n).notifications
    /\ UNCHANGED <<financiers, applications, assignments, info_requests, offers,
                   contracts, requests, call>>

MarkAllRead ==
    /\ \E u \in UserIds : notifications' = mark_all_read(notifications, u).notifications
    /\ UNCHANGED <<financiers, applications, assignments, info_requests, offers,
                   contracts, requests, call>>

NextNotify ==
    \/ CreateApplicationAndNotify
    \/ AssignToFinancierAndNotify
    \/ RemoveAssignmentAndNotify
    \/ MarkNotificationRead
    \/ MarkAllRead

SpecNotify == Init /\ [][NextNotify]_vars

\* ================================================================== claims
ApplicationIds == DOMAIN applications

\* --- C1 ---------------------------------------------------------------
\* The edges of the transition table of section 4.1. "Active" is every status
\* that is not terminal.
TerminalStatuses == {"SIGNED", "CLOSED", "CANCELLED"}

ActiveStatuses == ApplicationStatus \ TerminalStatuses

TransitionTable ==
    {<<"SUBMITTED", "SUBMITTED_TO_FINANCIER">>,
     <<"OFFER_SENT", "OFFER_ACCEPTED">>, <<"OFFER_SENT", "OFFER_REJECTED">>,
     <<"OFFER_ACCEPTED", "CONTRACT_SENT">>, <<"CONTRACT_SENT", "CONTRACT_SENT">>,
     <<"CONTRACT_SENT", "SIGNED">>}
        \cup {<<s, "INFO_REQUESTED">> : s \in ActiveStatuses}
        \cup {<<s, "OFFER_SENT">> : s \in ActiveStatuses}

\* C1: every change of Application.status follows an edge of the transition
\* table of section 4.1, and a new application starts SUBMITTED; no operation
\* makes any other change.
C1_StatusFollowsTable ==
    [][\A a \in DOMAIN applications' :
          IF a \notin DOMAIN applications
          THEN applications'[a].status = "SUBMITTED"
          ELSE \/ applications'[a].status = applications[a].status
               \/ <<applications[a].status, applications'[a].status>> \in TransitionTable
      ]_vars

\* --- C2 ---------------------------------------------------------------
\* C2: whenever some contract of an application is SIGNED, the application's
\* status is SIGNED.
C2_SignedContractImpliesSignedApplication ==
    \A c \in DOMAIN contracts :
        contracts[c].status = "SIGNED"
            => applications[contracts[c].application_id].status = "SIGNED"

\* --- C3 ---------------------------------------------------------------
\* C3: of two assign requests for the same (application, financier) pair that
\* run concurrently, exactly one succeeds, and at most one assignment row of
\* the pair exists afterwards.
C3_ConcurrentAssignOneSuccess ==
    /\ \A a \in ApplicationIds, f \in FinancierIds :
           Cardinality(AssignmentsOf(DB, a, f)) <= 1
    /\ \A r, q \in RequestIds :
           ( /\ r # q
             /\ requests[r].pc = "done" /\ requests[q].pc = "done"
             /\ requests[r].overlapped /\ requests[q].overlapped
             /\ SamePair(requests[q], requests[r].application_id,
                         requests[r].financier_id) )
           => ~(requests[r].code = HTTP_200_OK /\ requests[q].code = HTTP_200_OK)

\* --- C4 ---------------------------------------------------------------
\* No two assignment rows share an (application, financier) pair.
UniqueAssignments ==
    \A r, q \in assignments :
        (r.application_id = q.application_id /\ r.financier_id = q.financier_id)
            => r = q

\* C4 as claimed: no two assignment rows share a pair, and an assign for a pair
\* that already has a row is rejected as a duplicate (400), creates no row and
\* leaves the application's status unchanged.
C4_DuplicateRejectedAsDuplicate ==
    /\ UniqueAssignments
    /\ \A u \in AdminIds, a \in ApplicationIds, f \in FinancierIds :
           AssignmentsOf(DB, a, f) # {}
               => assign_to_financier(DB, u, a, f) = Err(HTTP_400_BAD_REQUEST, DB)

\* C4 as amended: no two assignment rows share a pair, and an assign for a pair
\* that already has a row is rejected, as a duplicate (400) when the financier
\* is active and as not found (404) when it has been deactivated; either way
\* it creates no row and leaves the application's status unchanged.
C4_DuplicateRejected ==
    /\ UniqueAssignments
    /\ \A u \in AdminIds, a \in ApplicationIds, f \in FinancierIds :
           AssignmentsOf(DB, a, f) # {}
               => assign_to_financier(DB, u, a, f) =
                      Err(IF financiers[f].is_active
                          THEN HTTP_400_BAD_REQUEST ELSE HTTP_404_NOT_FOUND, DB)

\* A second financier was assigned, the application moved on to another status,
\* and a repeated assign of an active financier is answered 400.
C4_Witness ==
    \E a \in ApplicationIds, f \in FinancierIds :
        /\ Cardinality(assignments) = 2
        /\ AssignmentsOf(DB, a, f) # {}
        /\ financiers[f].is_active
        /\ applications[a].status = "INFO_REQUESTED"
        /\ assign_to_financier(DB, "adm", a, f).code = HTTP_400_BAD_REQUEST

\* --- C5 ---------------------------------------------------------------
\* C5: an offer that is DRAFT or PENDING_ADMIN is returned by no request of the
\* customer who owns its application: the per-application list leaves it out
\* and the fetch by id is refused.
C5_HiddenOffersNotShown ==
    \A o \in DOMAIN offers, u \in UserIds :
        ( /\ offers[o].status \in {"DRAFT", "PENDING_ADMIN"}
          /\ users[u].role = "CUSTOMER"
          /\ applications[offers[o].application_id].customer_id = u )
        => /\ \A a \in ApplicationIdInputs : o \notin get_application_offers(DB, u, a).body
           /\ get_offer(DB, u, o).code = HTTP_403_FORBIDDEN
           /\ get_offer(DB, u, o).body = {}

\* The owner lists an application with one offer awaiting approval and one SENT
\* offer, and is shown the SENT one only.
C5_Witness ==
    \E o, p \in DOMAIN offers :
        LET a == offers[o].application_id
            u == applications[a].customer_id
        IN  /\ offers[o].status = "PENDING_ADMIN"
            /\ offers[p].status = "SENT" /\ offers[p].application_id = a
            /\ users[u].role = "CUSTOMER"
            /\ get_application_offers(DB, u, a) = [code |-> HTTP_200_OK, body |-> {p}]
            /\ get_offer(DB, u, p).body = {p}

\* --- C6 ---------------------------------------------------------------
OfferEdges ==
    {<<"DRAFT", "PENDING_ADMIN">>, <<"PENDING_ADMIN", "SENT">>,
     <<"SENT", "ACCEPTED">>, <<"SENT", "REJECTED">>}

\* C6: an offer starts DRAFT and its status only moves along DRAFT ->
\* PENDING_ADMIN -> SENT -> {ACCEPTED | REJECTED}; it becomes SENT only by an
\* admin's approve of the PENDING_ADMIN offer, which stamps sent_at, so every
\* SENT, ACCEPTED or REJECTED offer carries that stamp; no operation,
\* update_offer with a status field included, moves it backwards or past a
\* step.
C6_OfferMovesForward ==
    [][/\ DOMAIN offers \subseteq DOMAIN offers'
       /\ \A o \in DOMAIN offers' :
             offers'[o].status \in {"SENT", "ACCEPTED", "REJECTED"}
                 => offers'[o].sent_at = "stamped"
       /\ \A o \in DOMAIN offers' :
             IF o \notin DOMAIN offers
             THEN offers'[o].status = "DRAFT"
             ELSE \/ offers'[o].status = offers[o].status
                  \/ /\ <<offers[o].status, offers'[o].status>> \in OfferEdges
                     /\ offers'[o].status = "SENT"
                            => \E u \in UserIds :
                                   /\ users[u].role = "ADMIN"
                                   /\ approve_and_send_offer(DB, u, o).code = HTTP_200_OK
                                   /\ approve_and_send_offer(DB, u, o).db = DB'
      ]_vars

\* One offer went all the way to ACCEPTED and another to REJECTED.
C6_Witness ==
    \E o, p \in DOMAIN offers :
        /\ offers[o].status = "ACCEPTED" /\ offers[o].sent_at = "stamped"
        /\ offers[p].status = "REJECTED" /\ offers[p].sent_at = "stamped"

\* --- C7 ---------------------------------------------------------------
\* C7: accept_offer and reject_offer succeed only on a SENT offer; a customer's
\* call on an offer in any other status is answered 400 (InvalidState), and a
\* call that does not succeed leaves the offer's status and responded_at and
\* the application's status as they were.
C7_RespondOnlyWhenSent ==
    \A o \in DOMAIN offers, u \in UserIds :
        LET accepted == accept_offer(DB, u, o)
            rejected == reject_offer(DB, u, o)
        IN  /\ accepted.code = HTTP_200_OK => offers[o].status = "SENT"
            /\ rejected.code = HTTP_200_OK => offers[o].status = "SENT"
            /\ (users[u].role = "CUSTOMER" /\ offers[o].status # "SENT")
                   => /\ accepted.code = HTTP_400_BAD_REQUEST
                      /\ rejected.code = HTTP_400_BAD_REQUEST
            /\ accepted.code # HTTP_200_OK => accepted.db = DB
            /\ rejected.code # HTTP_200_OK => rejected.db = DB

\* The owner has accepted an offer and accepts it again: the second call is
\* answered 400.
C7_Witness ==
    \E o \in DOMAIN offers :
        LET u == applications[offers[o].application_id].customer_id IN
        /\ offers[o].status = "ACCEPTED" /\ offers[o].responded_at = "stamped"
        /\ users[u].role = "CUSTOMER"
        /\ accept_offer(DB, u, o) = Err(HTTP_400_BAD_REQUEST, DB)
        /\ reject_offer(DB, u, o) = Err(HTTP_400_BAD_REQUEST, DB)

\* --- C8 ---------------------------------------------------------------
\* C8: a contract starts DRAFT and its status only changes DRAFT -> SENT, by the
\* send of a user of its financier, and SENT -> SIGNED, by the sign or the
\* signed upload of the customer who owns the application; no operation puts
\* it into PENDING_ADMIN, REJECTED or EXPIRED.
C8_ContractStatusChanges ==
    [][\A c \in DOMAIN contracts' :
          IF c \notin DOMAIN contracts
          THEN contracts'[c].status = "DRAFT"
          ELSE \/ contracts'[c].status = contracts[c].status
               \/ /\ contracts[c].status = "DRAFT" /\ contracts'[c].status = "SENT"
                  /\ \E u \in UserIds :
                        /\ users[u].financier_id = contracts[c].financier_id
                        /\ send_contract(DB, u, c).db = DB'
               \/ /\ contracts[c].status = "SENT" /\ contracts'[c].status = "SIGNED"
                  /\ \E u \in UserIds :
                        /\ applications[contracts[c].application_id].customer_id = u
                        /\ \/ sign_contract(DB, u, c).db = DB'
                           \/ \E file \in SignedFileInputs :
                                  upload_signed_contract(DB, u, c, file).db = DB'
      ]_vars

\* --- C9 ---------------------------------------------------------------
\* C9: at most one contract of an application is SIGNED.
C9_AtMostOneSignedContract ==
    \A c, e \in DOMAIN contracts :
        ( /\ contracts[c].application_id = contracts[e].application_id
          /\ contracts[c].status = "SIGNED" /\ contracts[e].status = "SIGNED" )
        => c = e

\* --- C10 --------------------------------------------------------------
\* C10: once an application's status is SIGNED, no operation changes it.
C10_SignedIsTerminal ==
    [][\A a \in DOMAIN applications :
          applications[a].status = "SIGNED" => applications'[a].status = "SIGNED"
      ]_vars

\* --- C11 --------------------------------------------------------------
\* C11: no application ever has status DRAFT, CLOSED or CANCELLED.
C11_NoDraftClosedCancelled ==
    \A a \in DOMAIN applications :
        applications[a].status \notin {"DRAFT", "CLOSED", "CANCELLED"}

\* --- C18 --------------------------------------------------------------
\* C18: the owning customer's update_application succeeds exactly while the
\* application is DRAFT, SUBMITTED or INFO_REQUESTED; in every other status it
\* is rejected (400) and no field changes; an admin's update is accepted in
\* every status and applies the fields it carries.
C18_CustomerEditsOnlyWhileEditable ==
    \A a \in DOMAIN applications, patch \in ApplicationFormPatches :
        /\ \A u \in UserIds :
               (users[u].role = "CUSTOMER" /\ applications[a].customer_id = u)
               => LET response == update_application(DB, u, a, patch) IN
                  IF applications[a].status \in {"DRAFT", "SUBMITTED", "INFO_REQUESTED"}
                  THEN response.code = HTTP_200_OK
                  ELSE response = Err(HTTP_400_BAD_REQUEST, DB)
        /\ \A u \in AdminIds :
               LET response == update_application(DB, u, a, patch) IN
               /\ response.code = HTTP_200_OK
               /\ \A field \in DOMAIN patch :
                      response.db.applications[a][field] = patch[field]

\* An application that was renamed while editable has moved on to OFFER_SENT:
\* its owner's update is now answered 400 and an admin's is still applied.
C18_Witness ==
    \E a \in DOMAIN applications :
        LET u == applications[a].customer_id
            patch == ("company_name" :> "RENAMED") @@ ("status" :> "CANCELLED")
        IN  /\ users[u].role = "CUSTOMER"
            /\ applications[a].status = "OFFER_SENT"
            /\ applications[a].company_name = "NEWCO"
            /\ update_application(DB, u, a, patch) = Err(HTTP_400_BAD_REQUEST, DB)
            /\ update_application(DB, "adm", a, patch).db.applications[a].company_name
                   = "RENAMED"

\* --- C19 --------------------------------------------------------------
\* C19: a customer's update_application of their own, still editable
\* application with a status field in the body is not rejected: the other
\* fields of the body are applied and the status keeps its value.
C19_CustomerStatusIgnored ==
    \A a \in DOMAIN applications, patch \in ApplicationFormPatches, u \in UserIds :
        ( /\ users[u].role = "CUSTOMER" /\ applications[a].customer_id = u
          /\ applications[a].status \in CustomerEditable
          /\ "status" \in DOMAIN patch )
        => LET response == update_application(DB, u, a, patch) IN
           /\ response.code = HTTP_200_OK
           /\ response.db.applications[a].status = applications[a].status
           /\ \A field \in DOMAIN patch \ {"status"} :
                  response.db.applications[a][field] = patch[field]
           /\ \A field \in DOMAIN applications[a] \ DOMAIN patch :
                  response.db.applications[a][field] = applications[a][field]

\* The body that renames to RENAMED also asks for CANCELLED; the application
\* is RENAMED and still SUBMITTED, a status nothing ever returns to, so its
\* owner sent that body and the status field was dropped.
C19_Witness ==
    \E a \in DOMAIN applications :
        /\ users[applications[a].customer_id].role = "CUSTOMER"
        /\ applications[a].company_name = "RENAMED"
        /\ applications[a].status = "SUBMITTED"

\* --- C20 --------------------------------------------------------------
\* C20: update_application changes an application only when the caller is the
\* customer who owns it or an admin; a call by a user with the FINANCIER role
\* changes nothing.
C20_OnlyOwnerOrAdminUpdates ==
    \A a \in DOMAIN applications, patch \in ApplicationFormPatches, u \in UserIds :
        update_application(DB, u, a, patch).db # DB
            => \/ users[u].role = "ADMIN"
               \/ users[u].role = "CUSTOMER" /\ applications[a].customer_id = u

\* --- C12 --------------------------------------------------------------
\* C12: a request creates notifications and sends e-mails only after its
\* state change has been committed; a request whose commit did not happen has
\* created no notification and sent no e-mail.
C12_FanoutOnlyAfterCommit ==
    (call.notified # <<>> \/ call.emailed # <<>>) => call.committed

\* --- C13 --------------------------------------------------------------
\* C13: when creating a notification or sending an e-mail fails after the
\* commit, the committed state change stays in place and the request still
\* answers success.
C13_FanoutFailureKeepsSuccess ==
    (call.pc = "done" /\ call.committed)
        => /\ call.code = HTTP_200_OK
           /\ call.op = "assign_to_financier"
                  => AssignmentsOf(DB, call.application_id, call.financier_id) # {}
           /\ call.op = "approve_and_send_offer"
                  => offers[call.offer_id].status = "SENT"

\* --- C14 --------------------------------------------------------------
\* C14: the monthly rent of a contract created with the id of an ACCEPTED
\* offer is the rent the caller supplied, whenever one was supplied (zero
\* included), and the offer's monthly payment otherwise; with no offer and no
\* supplied rent it is empty.
C14_SuppliedRentWins ==
    \A u \in UserIds, a \in DOMAIN applications, o \in {0} \cup DOMAIN offers,
       monthly_rent \in ContractRentForms :
        LET response == create_contract(DB, u, a, o, monthly_rent)
            contract == response.db.contracts[Len(contracts) + 1]
        IN  response.code = HTTP_200_OK
                => contract.monthly_rent =
                       IF monthly_rent # NULL THEN monthly_rent
                       ELSE IF o # 0 /\ offers[o].status = "ACCEPTED"
                            THEN offers[o].monthly_payment
                       ELSE NULL

\* --- C15 --------------------------------------------------------------
\* C15: for a SENT contract and its owning customer, sign_contract and
\* upload_signed_contract of a valid PDF end in the same state, with signed_at,
\* lessee_signature_date, lessee_signer_name and lessee_signature_place
\* stamped and the same notifications, except that the upload also sets
\* signed_file_id.
C15_SigningPathsAgree ==
    \A c \in DOMAIN contracts, u \in UserIds :
        LET signed == sign_contract(DB, u, c)
            uploaded == upload_signed_contract(DB, u, c, "signed.pdf")
        IN  signed.code = HTTP_200_OK
                => /\ uploaded.code = HTTP_200_OK
                   /\ uploaded.notified = signed.notified
                   /\ uploaded.db.contracts[c].signed_file_id # NULL
                   /\ uploaded.db.contracts[c].lessee_signature_place # NULL
                   /\ signed.db.contracts[c].lessee_signature_place # NULL
                   /\ [uploaded.db EXCEPT !.contracts[c].signed_file_id = NULL]
                          = signed.db

\* --- C16 --------------------------------------------------------------
\* C16: send_contract by a user of the contract's financier on a DRAFT
\* contract whose lessee_company_name or monthly_rent is missing is answered
\* 400 and changes nothing, no notification included; when both are present
\* the one commit makes the contract SENT, stamps sent_at and makes the
\* application CONTRACT_SENT, and the customer is notified.
C16_SendNeedsCompleteContract ==
    \A c \in DOMAIN contracts, u \in UserIds :
        ( /\ users[u].role = "FINANCIER"
          /\ users[u].financier_id = contracts[c].financier_id
          /\ contracts[c].status = "DRAFT" )
        => LET a == contracts[c].application_id IN
           IF contracts[c].lessee_company_name \in {NULL, ""}
              \/ contracts[c].monthly_rent \in {NULL, "0.0"}
           THEN send_contract(DB, u, c) = Err(HTTP_400_BAD_REQUEST, DB)
           ELSE send_contract(DB, u, c) =
                    Ok([DB EXCEPT !.contracts[c].status = "SENT",
                                  !.contracts[c].sent_at = "stamped",
                                  !.applications[a].status = "CONTRACT_SENT"],
                       <<Note(applications[a].customer_id, "CONTRACT_SENT")>>)

\* One contract was sent; a second one, created without an offer and so
\* without a rent, had its company name blanked and is still DRAFT: sending it
\* is answered 400.
C16_Witness ==
    \E c, e \in DOMAIN contracts :
        LET u == CHOOSE v \in UserIds : users[v].financier_id = contracts[c].financier_id
        IN  /\ contracts[c].status = "SENT" /\ contracts[c].sent_at = "stamped"
            /\ applications[contracts[c].application_id].status = "CONTRACT_SENT"
            /\ contracts[e].status = "DRAFT" /\ contracts[e].lessee_company_name = ""
            /\ contracts[e].monthly_rent = NULL
            /\ contracts[e].financier_id = contracts[c].financier_id
            /\ send_contract(DB, u, e) = Err(HTTP_400_BAD_REQUEST, DB)

\* --- C17 --------------------------------------------------------------
\* C17: a financier user whose financier has no assignment row for an
\* application (never assigned, or the row was removed) cannot create an
\* offer, a contract or an info request on it: each attempt is answered 403,
\* creates no record and leaves the application's status unchanged.
C17_UnassignedFinancierForbidden ==
    \A u \in UserIds, a \in DOMAIN applications :
        ( /\ users[u].role = "FINANCIER"
          /\ AssignmentsOf(DB, a, users[u].financier_id) = {} )
        => /\ \A monthly_payment \in OfferPaymentInputs :
                  create_offer(DB, u, a, monthly_payment) = Err(HTTP_403_FORBIDDEN, DB)
           /\ \A o \in {0} \cup DOMAIN offers, monthly_rent \in ContractRentForms :
                  create_contract(DB, u, a, o, monthly_rent) = Err(HTTP_403_FORBIDDEN, DB)
           /\ create_info_request(DB, u, a) = Err(HTTP_403_FORBIDDEN, DB)

\* Financier F1 asked for information while assigned and has since lost its
\* assignment; the application is OFFER_ACCEPTED, where contracts may be
\* created: F1's user is refused all three, while F2, assigned, may create.
C17_Witness ==
    \E a \in DOMAIN applications, r \in DOMAIN info_requests :
        /\ info_requests[r].application_id = a
        /\ info_requests[r].financier_id = "F1"
        /\ AssignmentsOf(DB, a, "F1") = {}
        /\ AssignmentsOf(DB, a, "F2") # {}
        /\ applications[a].status = "OFFER_ACCEPTED"
        /\ create_offer(DB, "f1u", a, "300.0") = Err(HTTP_403_FORBIDDEN, DB)
        /\ create_contract(DB, "f1u", a, 0, NULL) = Err(HTTP_403_FORBIDDEN, DB)
        /\ create_info_request(DB, "f1u", a) = Err(HTTP_403_FORBIDDEN, DB)
        /\ create_contract(DB, "f2u", a, 0, NULL).code = HTTP_200_OK

\* --- C21 --------------------------------------------------------------
\* C21: a response by a user of the request's financier is appended, leaves
\* InfoRequest.status as it was (PENDING stays PENDING) and notifies nobody;
\* a response by the owning customer makes the request RESPONDED.
C21_FinancierResponseKeepsStatus ==
    \A r \in DOMAIN info_requests, u \in UserIds :
        LET response == respond_to_info_request(DB, u, r) IN
        response.code = HTTP_200_OK =>
            /\ Len(response.db.info_requests[r].responses)
                   = Len(info_requests[r].responses) + 1
            /\ users[u].role = "FINANCIER" =>
                   /\ response.db.info_requests[r].status = info_requests[r].status
                   /\ response.notified = <<>>
            /\ users[u].role = "CUSTOMER" =>
                   response.db.info_requests[r].status = "RESPONDED"

\* --- C22 --------------------------------------------------------------
\* C22: respond_to_info_request appends a response only for the customer who
\* owns the request's application or a user of the request's financier while
\* that financier is assigned to the application; every other caller (another
\* customer, another financier's user, an admin, a financier whose assignment
\* was removed) is rejected and the database stays as it was.
C22_OnlyOwnerOrAssignedResponds ==
    \A r \in DOMAIN info_requests, u \in UserIds :
        LET info_request == info_requests[r]
            application == applications[info_request.application_id]
            response == respond_to_info_request(DB, u, r)
            entitled ==
                \/ users[u].role = "CUSTOMER" /\ application.customer_id = u
                \/ /\ users[u].role = "FINANCIER"
                   /\ users[u].financier_id = info_request.financier_id
                   /\ AssignmentsOf(DB, info_request.application_id,
                                    info_request.financier_id) # {}
        IN  ~entitled => response.code # HTTP_200_OK /\ response.db = DB

\* --- C23 --------------------------------------------------------------
\* The number of notifications of a list that are addressed to user w.
NotificationsFor(notes, w) ==
    Cardinality({i \in DOMAIN notes : notes[i].user_id = w})

\* One for the application's customer, one for an active user of financier f.
ExpectedAssignNotifications(w, customer_id, f) ==
    (IF w = customer_id THEN 1 ELSE 0)
        + (IF users[w].financier_id = f /\ users[w].is_active THEN 1 ELSE 0)

\* C23: every successful assign of application a to financier f makes the
\* application SUBMITTED_TO_FINANCIER, adds one PENDING assignment of the pair,
\* and creates exactly one notification for the application's customer and one
\* for each active user of f, and none for anyone else: a deactivated user of
\* f and the users of other financiers get none. This holds of the request
\* run in one piece and of the request followed statement by statement to its
\* 200 answer.
C23_AssignFanout ==
    /\ \A u \in UserIds, a \in DOMAIN applications, f \in FinancierIds :
           LET response == assign_to_financier(DB, u, a, f) IN
           response.code = HTTP_200_OK =>
               /\ response.db.applications[a].status = "SUBMITTED_TO_FINANCIER"
               /\ \E row \in response.db.assignments \ assignments :
                      /\ row.application_id = a
                      /\ row.financier_id = f
                      /\ row.status = "PENDING"
                      /\ response.db.assignments = assignments \cup {row}
               /\ \A w \in DOMAIN users :
                      NotificationsFor(response.notified, w)
                          = ExpectedAssignNotifications(w, applications[a].customer_id, f)
    /\ (call.pc = "done" /\ call.op = "assign_to_financier"
            /\ call.code = HTTP_200_OK) =>
           /\ applications[call.application_id].status = "SUBMITTED_TO_FINANCIER"
           /\ \E row \in AssignmentsOf(DB, call.application_id, call.financier_id) :
                  row.status = "PENDING"
           /\ \A w \in DOMAIN users :
                  NotificationsFor(call.notified, w)
                      = ExpectedAssignNotifications(
                            w, applications[call.application_id].customer_id,
                            call.financier_id)

\* An assign to F1, which has an active and a deactivated user, has answered
\* 200: the customer and the active user hold one notification each.
C23_Witness ==
    /\ call.pc = "done"
    /\ call.op = "assign_to_financier"
    /\ call.code = HTTP_200_OK
    /\ call.financier_id = "F1"
    /\ users["f1x"].financier_id = "F1" /\ ~users["f1x"].is_active
    /\ NotificationsFor(call.notified, "c1") = 1
    /\ NotificationsFor(call.notified, "f1u") = 1
    /\ NotificationsFor(call.notified, "f1x") = 0
    /\ Len(call.notified) = 2

\* --- C24 --------------------------------------------------------------
\* C24: every creation of an application, by a logged-in customer or by the
\* public form on behalf of the account of its contact e-mail, stores a
\* SUBMITTED application owned by that customer and creates exactly one
\* notification, addressed to that customer.
C24_CreationNotifiesOwner ==
    \A u \in CreatorInputs \cup {PublicApplicant} :
        \A response \in {create_application(DB, u)}
                            \cup (IF u = PublicApplicant
                                  THEN {create_public_application(DB, u)} ELSE {}) :
            LET a == Len(response.db.applications) IN
            /\ response.code = HTTP_200_OK
            /\ a = Len(applications) + 1
            /\ response.db.applications[a].status = "SUBMITTED"
            /\ response.db.applications[a].customer_id = u
            /\ Len(response.notified) = 1
            /\ NotificationsFor(response.notified, u) = 1

\* --- C25 --------------------------------------------------------------
\* Rows i of two tables differ in nothing, or in is_read turned to TRUE.
SameOrMarkedRead(before, after) ==
    /\ after.user_id = before.user_id
    /\ after.notification_type = before.notification_type
    /\ before.is_read => after.is_read

\* No step removes a row, changes whose it is, or turns is_read back to FALSE.
NotificationsAppendOnly ==
    /\ Len(notifications') >= Len(notifications)
    /\ \A i \in DOMAIN notifications :
           SameOrMarkedRead(notifications[i], notifications'[i])

\* Marking by user u touches only u's rows; marking a row of another user
\* answers 404 and leaves it as it was.
NotificationsOwnerMutable ==
    \A u \in UserIds :
        /\ \A n \in NotificationIdInputs :
               LET response == mark_notification_read(notifications, u, n) IN
               /\ DOMAIN response.notifications = DOMAIN notifications
               /\ \A i \in DOMAIN notifications :
                      /\ SameOrMarkedRead(notifications[i], response.notifications[i])
                      /\ notifications[i].user_id # u
                             => response.notifications[i] = notifications[i]
               /\ (n \in DOMAIN notifications /\ notifications[n].user_id # u)
                      => /\ response.code = HTTP_404_NOT_FOUND
                         /\ response.notifications = notifications
               /\ (n \in DOMAIN notifications /\ notifications[n].user_id = u)
                      => /\ response.code = HTTP_200_OK
                         /\ response.notifications[n].is_read
        /\ LET response == mark_all_read(notifications, u) IN
           /\ DOMAIN response.notifications = DOMAIN notifications
           /\ \A i \in DOMAIN notifications :
                  /\ SameOrMarkedRead(notifications[i], response.notifications[i])
                  /\ notifications[i].user_id # u
                         => response.notifications[i] = notifications[i]
                  /\ notifications[i].user_id = u => response.notifications[i].is_read

\* C25: the notifications table is append-only and mutable by the owner
\* only: no operation deletes a notification or turns is_read from true to
\* false, and mark_as_read / mark_all_as_read called by user u change only
\* the notifications whose user_id is u; marking another user's notification
\* answers not-found and leaves it unread.
C25_NotificationLog ==
    []NotificationsOwnerMutable /\ [][NotificationsAppendOnly]_vars

\* A user has marked a notification read while another user's notification,
\* which the first user may try to mark, is still unread.
C25_Witness ==
    \E i, j \in DOMAIN notifications :
        /\ notifications[i].is_read
        /\ ~notifications[j].is_read
        /\ notifications[j].user_id # notifications[i].user_id
        /\ mark_notification_read(notifications, notifications[i].user_id, j).code
               = HTTP_404_NOT_FOUND

\* --- C26 --------------------------------------------------------------
\* The application was just created: SUBMITTED, with no assignment, offer,
\* contract or info request.
NewlyCreated(a) ==
    /\ applications[a].status = "SUBMITTED"
    /\ \A r \in assignments : r.application_id # a
    /\ \A o \in DOMAIN offers : offers[o].application_id # a
    /\ \A c \in DOMAIN contracts : contracts[c].application_id # a
    /\ \A r \in DOMAIN info_requests : info_requests[r].application_id # a

\* The responses of the intended flow on application a of database d, each
\* request run on the database the one before it left: admin assigns a to f,
\* fu (a user of f) creates an offer and sends it to the admin, the admin
\* approves, the customer accepts, fu creates a contract from the accepted
\* offer and sends it, the customer signs (on the site, or by upload).
IntendedFlow(d, a, admin, f, fu, upload) ==
    LET customer == d.applications[a].customer_id
        assigned == assign_to_financier(d, admin, a, f)
        drafted == create_offer(assigned.db, fu, a, "300.0")
        o == Len(drafted.db.offers)
        to_admin == send_offer_to_admin(drafted.db, fu, o)
        approved == approve_and_send_offer(to_admin.db, admin, o)
        accepted == accept_offer(approved.db, customer, o)
        contracted == create_contract(accepted.db, fu, a, o, NULL)
        c == Len(contracted.db.contracts)
        sent == send_contract(contracted.db, fu, c)
        signed == IF upload
                  THEN upload_signed_contract(sent.db, customer, c, "signed.pdf")
                  ELSE sign_contract(sent.db, customer, c)
    IN  [offer_id |-> o, contract_id |-> c,
         responses |-> <<assigned, drafted, to_admin, approved, accepted,
                         contracted, sent, signed>>]

\* C26: from a newly created application the intended flow is accepted step
\* by step: assign, create offer, send to admin (offer PENDING_ADMIN), approve
\* (offer SENT, application OFFER_SENT), accept (offer ACCEPTED, application
\* OFFER_ACCEPTED), create contract from the accepted offer, send contract
\* (application CONTRACT_SENT), sign: contract SIGNED and application SIGNED.
C26_IntendedFlowAccepted ==
    \A a \in DOMAIN applications, admin \in AdminIds, f \in FinancierIds,
       upload \in BOOLEAN :
        \A fu \in financier_user_ids(f) :
            LET flow == IntendedFlow(DB, a, admin, f, fu, upload)
                step == flow.responses
                o == flow.offer_id
                c == flow.contract_id
            IN  NewlyCreated(a) =>
                /\ \A i \in DOMAIN step : step[i].code = HTTP_200_OK
                /\ step[1].db.applications[a].status = "SUBMITTED_TO_FINANCIER"
                /\ step[2].db.offers[o].status = "DRAFT"
                /\ step[3].db.offers[o].status = "PENDING_ADMIN"
                /\ step[4].db.offers[o].status = "SENT"
                /\ step[4].db.applications[a].status = "OFFER_SENT"
                /\ step[5].db.offers[o].status = "ACCEPTED"
                /\ step[5].db.applications[a].status = "OFFER_ACCEPTED"
                /\ step[6].db.contracts[c].status = "DRAFT"
                /\ step[6].db.contracts[c].monthly_rent = "300.0"
                /\ step[7].db.contracts[c].status = "SENT"
                /\ step[7].db.applications[a].status = "CONTRACT_SENT"
                /\ step[8].db.contracts[c].status = "SIGNED"
                /\ step[8].db.contracts[c].signed_at # NULL
                /\ step[8].db.contracts[c].lessee_signature_date # NULL
                /\ step[8].db.applications[a].status = "SIGNED"

\* The flow has been run, request by request, to its end: the one offer is
\* ACCEPTED, the contract made from it was sent and is SIGNED, and the
\* application is SIGNED.
C26_Witness ==
    /\ Len(applications) = 1 /\ Len(offers) = 1 /\ Len(contracts) = 1
    /\ applications[1].status = "SIGNED"
    /\ AssignmentsOf(DB, 1, "F1") # {}
    /\ offers[1].status = "ACCEPTED" /\ offers[1].sent_at # NULL
    /\ contracts[1].offer_id = 1
    /\ contracts[1].monthly_rent = offers[1].monthly_payment
    /\ contracts[1].status = "SIGNED"
    /\ contracts[1].sent_at # NULL /\ contracts[1].signed_at # NULL

\* --- C27 --------------------------------------------------------------
\* Contract c may be shown to user u: to a customer when it is not a DRAFT
\* and its application is the customer's, to a financier user when it is the
\* financier's own, to an admin always.
ContractVisibleTo(u, c) ==
    /\ users[u].role = "CUSTOMER"
           => /\ contracts[c].status # "DRAFT"
              /\ applications[contracts[c].application_id].customer_id = u
    /\ users[u].role = "FINANCIER"
           => contracts[c].financier_id = users[u].financier_id

\* C27: the list of an application's contracts and the fetch of a contract by
\* id return to a customer no DRAFT contract and no contract of an application
\* of somebody else, and to a financier user no contract of another financier.
C27_ContractReadsFiltered ==
    \A u \in UserIds :
        /\ \A a \in ApplicationIdInputs :
               /\ \A c \in get_application_contracts(DB, u, a).body :
                      ContractVisibleTo(u, c) /\ contracts[c].application_id = a
               /\ (a \in DOMAIN applications /\ users[u].role = "CUSTOMER"
                       /\ applications[a].customer_id # u)
                      => get_application_contracts(DB, u, a).code = HTTP_403_FORBIDDEN
        /\ \A c \in ContractIdInputs :
               \A shown \in get_contract(DB, u, c).body :
                   shown = c /\ ContractVisibleTo(u, c)

\* One financier's contract was sent while another financier's is still a
\* draft: the owning customer is shown the sent one only, each financier its
\* own only, another customer nothing.
C27_Witness ==
    \E sent, draft \in DOMAIN contracts :
        /\ contracts[sent].status = "SENT" /\ contracts[draft].status = "DRAFT"
        /\ contracts[sent].financier_id = "F1" /\ contracts[draft].financier_id = "F2"
        /\ get_application_contracts(DB, "c1", 1).body = {sent}
        /\ get_contract(DB, "c1", draft).code = HTTP_403_FORBIDDEN
        /\ get_contract(DB, "c1", sent).body = {sent}
        /\ get_application_contracts(DB, "f1u", 1).body = {sent}
        /\ get_application_contracts(DB, "f2u", 1).body = {draft}
        /\ get_contract(DB, "f2u", sent).code = HTTP_403_FORBIDDEN
        /\ get_application_contracts(DB, "c2", 1).code = HTTP_403_FORBIDDEN
        /\ get_contract(DB, "c2", sent).code = HTTP_403_FORBIDDEN
        /\ get_application_contracts(DB, "adm", 1).body = {sent, draft}

\* --- C28 --------------------------------------------------------------
\* The response is a failure that left the database as it was.
FailsUnchanged(response) ==
    response.code # HTTP_200_OK /\ response.db = DB /\ response.notified = <<>>

\* C28: accept_offer, reject_offer, sign_contract and upload_signed_contract
\* succeed only for the customer who owns the application of the offer or
\* contract; called by anyone else, another customer in particular, they fail
\* and change neither the offer or contract nor the application.
C28_OnlyOwnerAcceptsAndSigns ==
    \A u \in UserIds :
        /\ \A o \in DOMAIN offers :
               u # applications[offers[o].application_id].customer_id
                   => /\ FailsUnchanged(accept_offer(DB, u, o))
                      /\ FailsUnchanged(reject_offer(DB, u, o))
        /\ \A c \in DOMAIN contracts :
               u # applications[contracts[c].application_id].customer_id
                   => /\ FailsUnchanged(sign_contract(DB, u, c))
                      /\ \A file \in SignedFileInputs :
                             FailsUnchanged(upload_signed_contract(DB, u, c, file))

\* An offer and a contract both await the customer (SENT); another customer
\* is refused each of the four requests, which the owner would be granted.
C28_Witness ==
    \E o \in DOMAIN offers, c \in DOMAIN contracts :
        /\ offers[o].status = "SENT" /\ contracts[c].status = "SENT"
        /\ applications[offers[o].application_id].customer_id = "c1"
        /\ applications[contracts[c].application_id].customer_id = "c1"
        /\ users["c2"].role = "CUSTOMER"
        /\ accept_offer(DB, "c2", o).code = HTTP_403_FORBIDDEN
        /\ reject_offer(DB, "c2", o).code = HTTP_403_FORBIDDEN
        /\ sign_contract(DB, "c2", c).code = HTTP_403_FORBIDDEN
        /\ upload_signed_contract(DB, "c2", c, "signed.pdf").code = HTTP_403_FORBIDDEN
        /\ accept_offer(DB, "c1", o).code = HTTP_200_OK
        /\ reject_offer(DB, "c1", o).code = HTTP_200_OK
        /\ sign_contract(DB, "c1", c).code = HTTP_200_OK
        /\ upload_signed_contract(DB, "c1", c, "signed.pdf").code = HTTP_200_OK

C30_RemoveDeletesOneRow ==
    \A u \in UserIds, id \in AssignmentIdInputs :
        LET response == remove_assignment(DB, u, id)
            named == {r \in assignments : r.id = id}
        IN  /\ response.code = HTTP_200_OK
                => /\ Cardinality(named) = 1
                   /\ response.db.assignments = assignments \ named
                   /\ response.db.applications = applications
                   /\ response.db.offers = offers
                   /\ response.db.contracts = contracts
                   /\ response.db.info_requests = info_requests
                   /\ response.db = [DB EXCEPT !.assignments = assignments \ named]
                   /\ response.notified = <<>>
            /\ response.code # HTTP_200_OK => response.db = DB
            /\ (named # {} /\ users[u].role = "ADMIN") => response.code = HTTP_200_OK

\* The assignment of F1 was removed after F1 made an offer and a contract:
\* both are still there, and the application is past SUBMITTED.
C30_Witness ==
    \E o \in DOMAIN offers, c \in DOMAIN contracts :
        /\ offers[o].financier_id = "F1" /\ contracts[c].financier_id = "F1"
        /\ offers[o].application_id = 1 /\ contracts[c].application_id = 1
        /\ AssignmentsOf(DB, 1, "F1") = {}
        /\ applications[1].status \notin {"SUBMITTED", "SUBMITTED_TO_FINANCIER"}

\* --- C31 --------------------------------------------------------------
\* C31: a successful accept_offer or reject_offer changes the offer it names
\* (status and responded_at) and the status of the offer's application, and
\* nothing else: every other offer, of the same application in particular,
\* keeps its status, so a sibling SENT offer stays SENT. reject_offer creates
\* no notification.
C31_AcceptRejectTouchOneOffer ==
    \A u \in UserIds, o \in DOMAIN offers :
        LET a == offers[o].application_id
            accepted == accept_offer(DB, u, o)
            rejected == reject_offer(DB, u, o)
        IN  /\ accepted.code = HTTP_200_OK
                => /\ \A i \in DOMAIN offers \ {o} : accepted.db.offers[i] = offers[i]
                   /\ accepted.db =
                          [DB EXCEPT !.offers[o].status = "ACCEPTED",
                                     !.offers[o].responded_at =
                                         accepted.db.offers[o].responded_at,
                                     !.applications[a].status = "OFFER_ACCEPTED"]
            /\ rejected.code = HTTP_200_OK
                => /\ \A i \in DOMAIN offers \ {o} : rejected.db.offers[i] = offers[i]
                   /\ rejected.db =
                          [DB EXCEPT !.offers[o].status = "REJECTED",
                                     !.offers[o].responded_at =
                                         rejected.db.offers[o].responded_at,
                                     !.applications[a].status = "OFFER_REJECTED"]
                   /\ rejected.notified = <<>>

\* Two offers of one application are SENT; the customer may accept or reject
\* the first, and the second is SENT afterwards.
C31_Witness ==
    /\ Len(offers) = 2
    /\ offers[1].application_id = offers[2].application_id
    /\ offers[1].status = "SENT" /\ offers[2].status = "SENT"
    /\ accept_offer(DB, "c1", 1).code = HTTP_200_OK
    /\ accept_offer(DB, "c1", 1).db.offers[2].status = "SENT"
    /\ reject_offer(DB, "c1", 1).code = HTTP_200_OK
    /\ reject_offer(DB, "c1", 1).db.offers[2].status = "SENT"

\* --- C32 --------------------------------------------------------------
\* C32: once an offer has left DRAFT its terms are frozen: whatever the
\* interleaving of update_offer with send_offer_to_admin, approve and accept
\* on the offer, no step changes the monthly_payment (or any other term) of
\* an offer whose status is no longer DRAFT.
C32_TermsFrozenAfterDraft ==
    [][\A o \in DOMAIN offers :
           offers[o].status # "DRAFT"
               => offers'[o].monthly_payment = offers[o].monthly_payment]_vars

\* --- C34 --------------------------------------------------------------
\* The request on connection r is an answered accept_offer or reject_offer.
CustomerResponse(r) ==
    requests[r].pc = "done" /\ requests[r].op \in {"accept_offer", "reject_offer"}

\* C34: an offer gets at most one customer response: of accept_offer and
\* reject_offer requests that run concurrently on one SENT offer exactly one
\* succeeds and the others are answered 400, so no acceptance notification
\* exists for an offer that ends up REJECTED.
C34_OneCustomerResponse ==
    /\ \A r, q \in RequestIds :
           (r # q /\ CustomerResponse(r) /\ CustomerResponse(q)
                /\ requests[r].offer_id = requests[q].offer_id)
               => ~(requests[r].code = HTTP_200_OK /\ requests[q].code = HTTP_200_OK)
    /\ \A r \in RequestIds :
           (CustomerResponse(r) /\ requests[r].op = "accept_offer"
                /\ requests[r].notified # <<>>)
               => offers[requests[r].offer_id].status # "REJECTED"

\* --- C33 --------------------------------------------------------------
\* C33: at any time at most one offer of an application is ACCEPTED.
C33_AtMostOneAcceptedOffer ==
    \A a \in DOMAIN applications :
        Cardinality({o \in DOMAIN offers :
                        offers[o].application_id = a /\ offers[o].status = "ACCEPTED"}) <= 1

\* --- C35 --------------------------------------------------------------
\* C35: the customer_id of every application is a user with the CUSTOMER
\* role: neither the authenticated nor the public creation attaches an
\* application to an ADMIN or FINANCIER user.
C35_OwnerIsCustomer ==
    \A a \in DOMAIN applications :
        users[applications[a].customer_id].role = "CUSTOMER"

\* --- C36 --------------------------------------------------------------
\* C36: every contract is issued by the financier whose offer the customer
\* accepted: the contract's financier_id is the financier_id of an ACCEPTED
\* offer of the contract's application.
C36_ContractByAcceptedFinancier ==
    \A c \in DOMAIN contracts :
        \E o \in DOMAIN offers :
            /\ offers[o].application_id = contracts[c].application_id
            /\ offers[o].status = "ACCEPTED"
            /\ offers[o].financier_id = contracts[c].financier_id

\* --- C37 --------------------------------------------------------------
\* C37: create_contract pre-fills the terms only from an offer of the
\* contract's application made by the calling financier: a contract created
\* without a monthly_rent of its own carries one only if the offer named in
\* the request is of that application and of that financier.
C37_PrefillFromOwnOffer ==
    \A u \in UserIds, a \in DOMAIN applications, offer_id \in OfferIdInputs :
        LET response == create_contract(DB, u, a, offer_id, NULL)
            c == Len(contracts) + 1
        IN  (response.code = HTTP_200_OK /\ response.db.contracts[c].monthly_rent # NULL)
                => /\ offer_id \in DOMAIN offers
                   /\ offers[offer_id].application_id = a
                   /\ offers[offer_id].financier_id = users[u].financier_id

\* --- C38 --------------------------------------------------------------
\* The response left the status of application a as it was and created no
\* notification for the application's customer.
LeavesApplicationAlone(response, a) ==
    /\ response.db.applications[a].status = applications[a].status
    /\ NotificationsFor(response.notified, applications[a].customer_id) = 0

\* C38: while financier f has no assignment to application a (it was removed
\* and not made again), no request of f's users on the records f has on a
\* (send offer, update offer, send contract, update contract, respond to an
\* info request) changes the status of a or notifies a's customer.
C38_RemovedFinancierIsInert ==
    \A a \in DOMAIN applications, f \in FinancierIds :
        AssignmentsOf(DB, a, f) = {} =>
            \A u \in financier_user_ids(f) :
                /\ \A o \in DOMAIN offers :
                       offers[o].application_id = a =>
                           /\ LeavesApplicationAlone(send_offer_to_admin(DB, u, o), a)
                           /\ \A patch \in OfferPatches \cup OfferTermPatches :
                                  LeavesApplicationAlone(update_offer(DB, u, o, patch), a)
                /\ \A c \in DOMAIN contracts :
                       contracts[c].application_id = a =>
                           /\ LeavesApplicationAlone(send_contract(DB, u, c), a)
                           /\ \A patch \in ContractPatches \cup ContractFormPatches :
                                  LeavesApplicationAlone(update_contract(DB, u, c, patch), a)
                /\ \A r \in DOMAIN info_requests :
                       info_requests[r].application_id = a =>
                           LeavesApplicationAlone(respond_to_info_request(DB, u, r), a)

====
